---------------------------- MODULE Spec2Model ----------------------------
(***************************************************************************)
(* Model of the sfdx-falcon recipe execution engine and of its result      *)
(* tree: SfdxFalconResult nodes with bubbling, the AppxRecipeEngine task   *)
(* compiler and executor, and SfdxFalconRecipe.compile / execute.          *)
(***************************************************************************)
EXTENDS Integers, Sequences, FiniteSets, TLC

VARIABLES
    nodes,      \* the store of SfdxFalconResult objects; a node's id is its index
    lastOp,     \* the last operation applied to a result node, with its outcome
    cfg,        \* the recipe file and the engine-injected groups / skip lists
    recipe,     \* SfdxFalconRecipe members: validated, compiled, engine reference
    engine,     \* AppxRecipeEngine members: listrTasks, initialized
    pc,         \* position of the (single-threaded) control flow
    run,        \* the state of the running Listr plan
    command     \* SfdxFalconCommand members: the detail of the COMMAND result

vars == <<nodes, lastOp, cfg, recipe, engine, pc, run, command>>

----------------------------------------------------------------------------
(* Bounds of the model *)

\* SpecNode: number of result nodes that are created
MaxNodes == 2

\* SpecValidate: number of target orgs in options.targetOrgs
MaxTargetOrgs == 2
\* SpecNode: length of the parent's children list
MaxChildren == 2
\* number of step groups in the recipe file
MaxGroups == 1
\* number of steps in a step group
MaxSteps == 2

----------------------------------------------------------------------------
(* Values *)

Types == {"COMMAND", "RECIPE", "ENGINE", "ACTION", "EXECUTOR", "UNKNOWN"}

Statuses == {"INITIALIZED", "RUNNING", "SUCCESS", "ERROR", "FAILURE", "WARNING"}

TerminalStatuses == {"SUCCESS", "ERROR", "FAILURE", "WARNING"}

NoErr == "none"

\* What a call returns or throws: nothing, a result node, or a plain Error.
None == [kind |-> "none", id |-> 0, err |-> NoErr]

NodeVal(i) == [kind |-> "node", id |-> i, err |-> NoErr]

Raw(e) == [kind |-> "raw", id |-> 0, err |-> e]

Last(s) == s[Len(s)]

----------------------------------------------------------------------------
(* SfdxFalconResult: the result node and its bubbling (sfdx-falcon-result)  *)

\* new SfdxFalconResult(name, type, {startNow, bubbleError, bubbleFailure})
NewResult(type, startNow, bubbleError, bubbleFailure) ==
    [type          |-> type,
     status        |-> IF startNow THEN "RUNNING" ELSE "INITIALIZED",
     children      |-> <<>>,
     bubbleError   |-> bubbleError,
     bubbleFailure |-> bubbleFailure,
     errObj        |-> NoErr]

CreateResult(ns, type, startNow, bubbleError, bubbleFailure) ==
    Append(ns, NewResult(type, startNow, bubbleError, bubbleFailure))

IsTerminal(status) == status \in TerminalStatuses

\* A variant of FinishResult that lets a finished node be finished again.
FinishResultNoGuard(ns, id, status, err) ==
    [ns  |-> [ns EXCEPT ![id].status = status, ![id].errObj = err],
     exc |-> None]

\* The terminal transition shared by success(), error(), failure(), warning():
\* a node that is already terminal refuses it.
FinishResult(ns, id, status, err) ==
    IF IsTerminal(ns[id].status)
    THEN [ns |-> ns, exc |-> Raw("DoubleFinalization")]
    ELSE [ns  |-> [ns EXCEPT ![id].status = status, ![id].errObj = err],
          exc |-> None]

ResultSuccess(ns, id) == FinishResult(ns, id, "SUCCESS", NoErr)

ResultError(ns, id, err) == FinishResult(ns, id, "ERROR", err)

ResultFailure(ns, id) == FinishResult(ns, id, "FAILURE", NoErr)

ResultWarning(ns, id) == FinishResult(ns, id, "WARNING", NoErr)

\* result.throw(err): mark the node ERROR, then throw the node itself.
ResultThrow(ns, id, err) ==
    LET r == ResultError(ns, id, err)
    IN  IF r.exc # None THEN r ELSE [ns |-> r.ns, exc |-> NodeVal(id)]

\* A variant of AddChild that bubbles whatever the parent's flags say.
AddChildAlwaysBubbles(ns, p, c) ==
    LET ns1 == [ns EXCEPT ![p].children = Append(@, c)]
    IN  IF ns1[c].status = "ERROR"
        THEN ResultThrow(ns1, p, ns1[c].errObj)
        ELSE IF ns1[c].status = "FAILURE"
        THEN LET r == ResultFailure(ns1, p)
             IN  IF r.exc # None THEN r ELSE [ns |-> r.ns, exc |-> NodeVal(p)]
        ELSE [ns |-> ns1, exc |-> None]

\* A variant of AddChild that never bubbles.
AddChildNoBubble(ns, p, c) ==
    [ns |-> [ns EXCEPT ![p].children = Append(@, c)], exc |-> None]

\* result.addChild(child): record the child, then bubble its ERROR / FAILURE
\* by finishing this node and throwing it.
AddChild(ns, p, c) ==
    LET ns1 == [ns EXCEPT ![p].children = Append(@, c)]
    IN  IF ns1[c].status = "ERROR" /\ ns1[p].bubbleError
        THEN ResultThrow(ns1, p, ns1[c].errObj)
        ELSE IF ns1[c].status = "FAILURE" /\ ns1[p].bubbleFailure
        THEN LET r == ResultFailure(ns1, p)
             IN  IF r.exc # None THEN r ELSE [ns |-> r.ns, exc |-> NodeVal(p)]
        ELSE [ns |-> ns1, exc |-> None]

\* A variant of the operator below that wraps a result node like any value.
WrapRejectedPromiseAlwaysWraps(ns, value, defaultType) ==
    [ns |-> Append(ns, [NewResult(defaultType, TRUE, TRUE, TRUE)
                          EXCEPT !.status = "ERROR", !.errObj = value.err]),
     id |-> Len(ns) + 1]

\* SfdxFalconResult.wrapRejectedPromise(value, defaultName, defaultType)
WrapRejectedPromise(ns, value, defaultType) ==
    IF value.kind = "node"
    THEN [ns |-> ns, id |-> value.id]
    ELSE [ns |-> Append(ns, [NewResult(defaultType, TRUE, TRUE, TRUE)
                                EXCEPT !.status = "ERROR", !.errObj = value.err]),
          id |-> Len(ns) + 1]

\* SfdxFalconResult.validate(candidate, expectedType, expectedStatus)
ValidateResult(ns, value, expectedType, expectedStatus) ==
    /\ value.kind = "node"
    /\ ns[value.id].type = expectedType
    /\ ns[value.id].status = expectedStatus

----------------------------------------------------------------------------
(* The recipe file and the engine's inputs *)

\* The action names a recipe step may carry; only the first is registered.
ActionNames == {"deploy-metadata", "unknown-action"}

\* AppxRecipeEngine.actionExecutorMap after initializeActionMap()
ActionExecutorMap == {"deploy-metadata"}

\* The alias of the recipe's i-th own step group.
RecipeAlias(i) == <<"A", i>>

SeqsUpTo(S, n) == UNION {[1..k -> S] : k \in 0..n}

\* An AppxEngineStepGroup with its AppxEngineSteps.
StepGroup(alias, actions) ==
    [alias |-> alias,
     steps |-> [i \in 1..Len(actions) |-> [name |-> <<alias, i>>, action |-> actions[i]]]]

\* The recipe's recipeStepGroups: up to MaxGroups groups of up to MaxSteps steps.
RecipeStepGroupChoices ==
    {[i \in 1..Len(gs) |-> StepGroup(RecipeAlias(i), gs[i])] :
        gs \in SeqsUpTo(SeqsUpTo(ActionNames, MaxSteps), MaxGroups)}

\* The groups a concrete engine injects before and after the recipe's own.
PreBuildChoices == {<<>>, <<StepGroup(<<"PRE", 1>>, <<"deploy-metadata">>)>>}

PostBuildChoices == {<<>>, <<StepGroup(<<"POST", 1>>, <<"deploy-metadata">>)>>}

AllAliases == {<<"PRE", 1>>, <<"POST", 1>>} \cup {RecipeAlias(i) : i \in 1..MaxGroups}

\* The eight top-level keys of a recipe file, in the order read() checks them.
TopLevelKeys ==
    <<"recipeName", "description", "recipeType", "recipeVersion",
      "schemaVersion", "options", "recipeStepGroups", "handlers">>

\* The top-level keys whose value is a string; "options" holds an object,
\* "recipeStepGroups" and "handlers" hold arrays.
StringKeys ==
    {"recipeName", "description", "recipeType", "recipeVersion", "schemaVersion"}

\* The values of recipeType: the two members of RecipeType, and any other string.
RecipeTypeValues == {"APPX_DEMO", "APPX_PACKAGE", "OTHER"}

\* Every recipe file with all top-level keys present, each with a value of its
\* type, together with the groups and skip lists an engine injects. `missing`
\* holds the top-level keys the file does not have (undefined or null).
AllConfigs ==
    [missing             : {{}},
     recipeName          : {"name"},
     description         : {"description"},
     recipeType          : RecipeTypeValues,
     recipeVersion       : {"1.0.0"},
     schemaVersion       : {"1.0.0"},
     options             : {"object"},
     handlers            : {<<>>},
     preBuildStepGroups  : PreBuildChoices,
     recipeStepGroups    : RecipeStepGroupChoices,
     postBuildStepGroups : PostBuildChoices,
     skipGroups          : SUBSET AllAliases,
     skipActions         : SUBSET ActionNames,
     haltOnError         : BOOLEAN]

\* The runs that are explored: only a recipe of type APPX_DEMO has an engine
\* that injects groups and skip lists; options.haltOnError is true only in
\* recipes without injected groups and with nothing skipped.
Configs ==
    {c \in AllConfigs :
        \/ c.recipeType = "APPX_DEMO" /\ ~c.haltOnError
        \/ /\ c.recipeType # "APPX_DEMO" => ~c.haltOnError
           /\ c.preBuildStepGroups = <<>>
           /\ c.postBuildStepGroups = <<>>
           /\ c.skipGroups = {}
           /\ c.skipActions = {}}

\* How a top-level key appears in a file: not at all, with the empty value
\* of its type ("", {} or []), or with a value.
KeyShapes == {"missing", "empty", "value"}

\* The recipe file in which every top-level key k has the shape shape[k].
RecipeFile(shape, type) ==
    [missing             |-> {k \in DOMAIN shape : shape[k] = "missing"},
     recipeName          |-> IF shape["recipeName"] = "value" THEN "name" ELSE "",
     description         |-> IF shape["description"] = "value" THEN "description" ELSE "",
     recipeType          |-> IF shape["recipeType"] = "value" THEN type ELSE "",
     recipeVersion       |-> IF shape["recipeVersion"] = "value" THEN "1.0.0" ELSE "",
     schemaVersion       |-> IF shape["schemaVersion"] = "value" THEN "1.0.0" ELSE "",
     options             |-> IF shape["options"] = "value" THEN "object" ELSE "emptyObject",
     handlers            |-> IF shape["handlers"] = "value" THEN <<"handler">> ELSE <<>>,
     preBuildStepGroups  |-> <<>>,
     recipeStepGroups    |-> IF shape["recipeStepGroups"] = "value"
                             THEN <<StepGroup(RecipeAlias(1), <<"deploy-metadata">>)>>
                             ELSE <<>>,
     postBuildStepGroups |-> <<>>,
     skipGroups          |-> {},
     skipActions         |-> {},
     haltOnError         |-> FALSE]

\* The recipe files read() is tried on: every shape of every top-level key.
RecipeFiles ==
    {RecipeFile(shape, type) :
        shape \in [{TopLevelKeys[i] : i \in 1..Len(TopLevelKeys)} -> KeyShapes],
        type \in RecipeTypeValues}

----------------------------------------------------------------------------
(* SfdxFalconRecipe: read() and the validation of the recipe file *)

\* JavaScript's !value for a top-level key of the file: true of undefined,
\* null and the empty string; an empty object or array is truthy.
IsFalsy(c, key) ==
    \/ key \in c.missing
    \/ key \in StringKeys /\ c[key] = ""

\* A variant of the operator below that stops at the first invalid key.
ValidateTopLevelPropertiesFirstOnly(c) ==
    LET invalidConfigKeys == SelectSeq(TopLevelKeys, LAMBDA k : IsFalsy(c, k))
    IN  IF Len(invalidConfigKeys) > 0
        THEN [exc |-> Raw("ERROR_INVALID_RECIPE"), keys |-> <<Head(invalidConfigKeys)>>]
        ELSE [exc |-> None, keys |-> <<>>]

\* SfdxFalconRecipe.validateTopLevelProperties: one error that lists every
\* top-level key found missing or invalid.
ValidateTopLevelProperties(c) ==
    LET invalidConfigKeys == SelectSeq(TopLevelKeys, LAMBDA k : IsFalsy(c, k))
    IN  IF Len(invalidConfigKeys) > 0
        THEN [exc |-> Raw("ERROR_INVALID_RECIPE"), keys |-> invalidConfigKeys]
        ELSE [exc |-> None, keys |-> <<>>]

\* AppxRecipeEngine.validateOuterRecipe: the options of an AppX recipe hold
\* the skip lists, haltOnError and the target orgs; an empty object holds none.
ValidateOuterRecipe(c) ==
    IF "options" \in c.missing
    THEN Raw("ERROR_INVALID_RECIPE")
    ELSE IF c.options = "emptyObject"
    THEN Raw("ERROR_INVALID_RECIPE")
    ELSE IF "recipeStepGroups" \in c.missing \/ "handlers" \in c.missing
    THEN Raw("ERROR_INVALID_RECIPE")
    ELSE None

\* AppxDemoConfigEngine.validateRecipe: the validation of the AppX family.
AppxDemoValidateRecipe(c) == ValidateOuterRecipe(c)

\* SfdxFalconRecipe.validate: the top-level keys, then the engine of the
\* recipe's type.
ValidateRecipe(c) ==
    LET top == ValidateTopLevelProperties(c)
    IN  IF top.exc # None
        THEN top
        ELSE IF c.recipeType = "APPX_DEMO"
        THEN [exc |-> AppxDemoValidateRecipe(c), keys |-> <<>>]
        ELSE IF c.recipeType = "APPX_PACKAGE"
        THEN [exc |-> None, keys |-> <<>>]
        ELSE [exc |-> Raw("ERROR_INVALID_RECIPE"), keys |-> <<>>]

\* The caller's view before read() has returned: no recipe object.
NoRecipe ==
    [returned |-> FALSE, validated |-> FALSE, compiled |-> FALSE,
     engineSet |-> FALSE, error |-> None, invalidKeys |-> <<>>]

\* A variant of the object below on which validated is left unset.
NewRecipeNotValidated ==
    [returned |-> TRUE, validated |-> FALSE, compiled |-> FALSE,
     engineSet |-> FALSE, error |-> None, invalidKeys |-> <<>>]

\* The SfdxFalconRecipe object read() populates and returns.
NewRecipe ==
    [returned |-> TRUE, validated |-> TRUE, compiled |-> FALSE,
     engineSet |-> FALSE, error |-> None, invalidKeys |-> <<>>]

----------------------------------------------------------------------------
(* AppxRecipeEngine: the task compiler *)

\* A variant of skipAction that skips nothing.
SkipActionNever(ctx, action) == FALSE

\* skipAction(actionToCheck)
SkipAction(ctx, action) == action \in ctx.skipActions

\* skipGroup(groupToCheck)
SkipGroup(ctx, alias) == alias \in ctx.skipGroups

\* A variant of stepGroupHasActiveTasks that finds every group active.
StepGroupHasActiveTasksAlways(ctx, group) == TRUE

\* stepGroupHasActiveTasks(stepGroupToCheck)
StepGroupHasActiveTasks(ctx, group) ==
    IF Len(group.steps) < 1
    THEN FALSE
    ELSE \E i \in 1..Len(group.steps) : SkipAction(ctx, group.steps[i].action) = FALSE

\* compileParentTasks(recipeStepGroups): one parent task per group that is
\* neither skipped nor without active steps, in the order of the groups.
CompileParentTasks(ctx, groups) ==
    SelectSeq(groups, LAMBDA g : ~SkipGroup(ctx, g.alias) /\ StepGroupHasActiveTasks(ctx, g))

\* A variant of the concatenation that puts the post-build groups first.
CompleteRecipeStepGroupsPostFirst(c) ==
    c.postBuildStepGroups \o c.recipeStepGroups \o c.preBuildStepGroups

\* compileAllTasks(): pre-build groups, the recipe's groups, post-build groups.
CompleteRecipeStepGroups(c) ==
    c.preBuildStepGroups \o c.recipeStepGroups \o c.postBuildStepGroups

CompileAllTasks(ctx, c) == CompileParentTasks(ctx, CompleteRecipeStepGroups(c))

\* compileSubTasks(recipeStepGroup): run by Listr when the group's parent task
\* starts; one sub task per step whose action is not on the skip list.
CompileSubTasks(ctx, group) ==
    IF Len(group.steps) < 1
    THEN [exc |-> Raw("ERROR_NO_STEPS"), tasks |-> <<>>]
    ELSE [exc   |-> None,
          tasks |-> SelectSeq(group.steps, LAMBDA s : ~SkipAction(ctx, s.action))]

----------------------------------------------------------------------------
(* Actions and executors *)

\* What the executor called by an action settles with: it resolves with an
\* EXECUTOR result in some final status, or rejects with such a result or
\* with a plain Error.
ExecutorOutcomes ==
    [kind : {"resolve", "reject"}, val : {"result"}, status : {"SUCCESS", "ERROR", "FAILURE"}]
    \cup {[kind |-> "reject", val |-> "raw", status |-> "ERROR"]}

\* The EXECUTOR result an executor hands back.
ExecutorResult(status) ==
    [NewResult("EXECUTOR", TRUE, TRUE, TRUE)
        EXCEPT !.status = status,
               !.errObj = IF status = "ERROR" THEN "ExecutorError" ELSE NoErr]

\* DeployMetadataAction.executeAction, the .catch() of the executor's promise:
\* wrap what was rejected, attach it to the ACTION result.
DeployMetadataCatch(ns, action, value) ==
    LET w == WrapRejectedPromise(ns, value, "EXECUTOR")
        r == AddChild(w.ns, action, w.id)
    IN  IF r.exc = None
        THEN [ns |-> r.ns, settled |-> "resolved", val |-> NodeVal(action)]
        ELSE [ns |-> r.ns, settled |-> "rejected", val |-> r.exc]

\* DeployMetadataAction.executeAction from the moment the executor settles:
\* .then() attaches the EXECUTOR result, and what it throws lands in .catch().
DeployMetadataSettle(ns, action, o) ==
    IF o.val = "result"
    THEN LET ns1 == Append(ns, ExecutorResult(o.status))
             x   == Len(ns) + 1
         IN  IF o.kind = "resolve"
             THEN LET r == AddChild(ns1, action, x)
                  IN  IF r.exc = None
                      THEN [ns |-> r.ns, settled |-> "resolved", val |-> NodeVal(action)]
                      ELSE DeployMetadataCatch(r.ns, action, r.exc)
             ELSE DeployMetadataCatch(ns1, action, NodeVal(x))
    ELSE DeployMetadataCatch(ns, action, Raw("ExecutorError"))

----------------------------------------------------------------------------
(* AppxRecipeEngine: execution of the compiled plan *)

\* The ENGINE result is the second result created (by the engine's constructor);
\* the RECIPE result is the first (by SfdxFalconRecipe.read).
RecipeResultId == 1

EngineResultId == 2

\* A variant of the .catch() below that attaches what was rejected and lets
\* the task complete whatever addChild() throws.
EngineStepCatchSuppresses(ns, value) ==
    LET w == WrapRejectedPromise(ns, value, "ACTION")
        r == AddChild(w.ns, EngineResultId, w.id)
    IN  [ns |-> r.ns, exc |-> None]

\* compileSubTasks, the .catch() of executeStep's promise: wrap what was
\* rejected, attach it to the ENGINE result; the task errors iff that throws.
EngineStepCatch(ns, value) ==
    LET w == WrapRejectedPromise(ns, value, "ACTION")
        r == AddChild(w.ns, EngineResultId, w.id)
    IN  [ns |-> r.ns, exc |-> r.exc]

\* A variant of the .then() below that does not attach the ACTION result.
EngineStepThenNoAttach(ns, value) == [ns |-> ns, exc |-> None]

\* compileSubTasks, the .then() of executeStep's promise, followed by the
\* .catch() chained behind it.
EngineStepThen(ns, value) ==
    LET r == AddChild(ns, EngineResultId, value.id)
    IN  IF r.exc = None THEN r ELSE EngineStepCatch(r.ns, r.exc)

\* AppxRecipeEngine.onError(listrError): always throws.
EngineOnError(ns, listrError) ==
    IF ~ValidateResult(ns, listrError, "ENGINE", "ERROR")
    THEN ResultThrow(ns, EngineResultId, "ERROR_UNEXPECTED_LISTR_RESULT")
    ELSE [ns |-> ns, exc |-> NodeVal(EngineResultId)]

\* A variant of onSuccess() below in which an engine told to halt on error
\* ends its result in ERROR.
EngineOnSuccessHalts(ns, ctx) ==
    IF ctx.haltOnError
    THEN ResultError(ns, EngineResultId, "ERROR_HALTED")
    ELSE ResultSuccess(ns, EngineResultId)

\* AppxRecipeEngine.onSuccess(listrContext): the branch taken on a FAILURE
\* result of an engine whose context says haltOnError is empty; then
\* success() is called on the ENGINE result.
EngineOnSuccess(ns, ctx) ==
    LET ns1 == IF ns[EngineResultId].status = "FAILURE" /\ ctx.haltOnError
               THEN ns
               ELSE ns
    IN  ResultSuccess(ns1, EngineResultId)

\* AppxRecipeEngine.execute once executeEngine() has settled with `listr`
\* (None: the plan ran to its end): .then(onSuccess).catch(onError), then
\* the ENGINE result is returned.
EngineExecuteSettle(ns, listr, ctx) ==
    LET r == IF listr = None
             THEN LET s == EngineOnSuccess(ns, ctx)
                  IN  IF s.exc = None THEN s ELSE EngineOnError(s.ns, s.exc)
             ELSE EngineOnError(ns, listr)
    IN  IF r.exc = None
        THEN [ns |-> r.ns, settled |-> "resolved", val |-> NodeVal(EngineResultId)]
        ELSE [ns |-> r.ns, settled |-> "rejected", val |-> r.exc]

----------------------------------------------------------------------------
(* SfdxFalconRecipe: execute *)

\* A variant of onError() below that re-throws what it was handed.
RecipeOnErrorRethrows(ns, value) == [ns |-> ns, exc |-> value]

\* SfdxFalconRecipe.onError(engineError): always throws.
RecipeOnError(ns, value) ==
    LET w == WrapRejectedPromise(ns, value, "ENGINE")
        r == AddChild(w.ns, RecipeResultId, w.id)
    IN  IF r.exc = None THEN [ns |-> r.ns, exc |-> NodeVal(RecipeResultId)] ELSE r

\* A variant of onSuccess() below that marks the RECIPE result without
\* attaching the ENGINE result.
RecipeOnSuccessNoAttach(ns, value) == ResultSuccess(ns, RecipeResultId)

\* SfdxFalconRecipe.onSuccess(falconEngineResult)
RecipeOnSuccess(ns, value) ==
    LET r == AddChild(ns, RecipeResultId, value.id)
    IN  IF r.exc = None THEN ResultSuccess(r.ns, RecipeResultId) ELSE r

\* SfdxFalconRecipe.execute once the engine's execute() has settled:
\* .then(onSuccess).catch(onError), then the RECIPE result is returned.
RecipeExecuteSettle(ns, e) ==
    LET r == IF e.settled = "resolved"
             THEN LET s == RecipeOnSuccess(ns, e.val)
                  IN  IF s.exc = None THEN s ELSE RecipeOnError(s.ns, s.exc)
             ELSE RecipeOnError(ns, e.val)
    IN  IF r.exc = None
        THEN [ns |-> r.ns, settled |-> "resolved", val |-> NodeVal(RecipeResultId)]
        ELSE [ns |-> r.ns, settled |-> "rejected", val |-> r.exc]

----------------------------------------------------------------------------
(* The state machine of one recipe: read -> compile -> execute *)

\* engine.listrTasks is modelled by two fields: listrTasks, the parent tasks,
\* and tasksSet, whether the member is other than null.
\* lastOp: the operation, the node it was called on, the child handed to
\* addChild, the node's status before the call (for a create: whether
\* startNow was asked) and what the call threw.
NoOp == [op |-> "none", node |-> 0, child |-> 0, pre |-> "none", exc |-> None]

\* No command has been initialized.
NoCommand ==
    [constructed     |-> FALSE,
     commandExitCode |-> 0,
     onSuccessTaken  |-> FALSE,
     onErrorTaken    |-> FALSE,
     terminatedWith  |-> None,
     thrown          |-> None]

RunInit ==
    [gi       |-> 0,        \* index of the parent task (group) that is running
     inSub    |-> FALSE,    \* whether that group's sub tasks are running
     sub      |-> <<>>,     \* the sub tasks of that group (its active steps)
     si       |-> 0,        \* index of the sub task started last
     inflight |-> 0,        \* the ACTION result of the action in flight
     invoked  |-> <<>>,     \* the steps handed to executeStep, in order
     contexts |-> <<>>,     \* per invoked step, the action context built for it
     actionResults |-> <<>>,    \* per invoked step, the ACTION result its
                                \* action created (0: no action was found)
     settled  |-> <<>>,     \* per invoked step, whether its action resolved
     err      |-> None,     \* what the Listr run rejected with
     engineCalled  |-> FALSE,   \* whether the engine's execute() was called
     started       |-> FALSE,   \* whether startExecution() was called
     engineOutcome |-> [settled |-> "pending", val |-> None],
                            \* how the engine's execute() settled
     outcome  |-> [settled |-> "pending", val |-> None]]
                            \* how the recipe's execute() settled

\* No AppxRecipeEngine has been constructed. The members are as the
\* constructor leaves them: listrTasks null, the pre- and post-build groups
\* arrays, no action map, an engine context without skip lists or target org;
\* steps lists the steps of compile() that were started.
NoEngine ==
    [constructed |-> FALSE, listrTasks |-> <<>>, tasksSet |-> FALSE,
     initialized |-> FALSE, skipActions |-> {}, skipGroups |-> {},
     targetOrgAlias |-> "",
     actionExecutorMap |-> "undefined",
     preBuildIsArray |-> TRUE, postBuildIsArray |-> TRUE,
     skipActionsIsArray |-> FALSE, skipGroupsIsArray |-> FALSE,
     haltOnError |-> FALSE,
     steps |-> <<>>]

\* The engine right after its constructor: listrTasks is null.
NewEngine == [NoEngine EXCEPT !.constructed = TRUE]

\* A recipe file is about to be read.
Init ==
    /\ cfg \in Configs
    /\ nodes = <<>>
    /\ lastOp = NoOp
    /\ recipe = NoRecipe
    /\ engine = NoEngine
    /\ pc = "file"
    /\ run = RunInit
    /\ command = NoCommand

\* SfdxFalconRecipe.read(): validate the file, then build the recipe object
\* with its RECIPE result; a validation error leaves the caller without one.
RecipeRead ==
    /\ pc = "file"
    /\ LET v == ValidateRecipe(cfg)
       IN  IF v.exc = None
           THEN /\ nodes' = CreateResult(nodes, "RECIPE", FALSE, TRUE, TRUE)
                /\ recipe' = NewRecipe
                /\ pc' = "read"
           ELSE /\ nodes' = nodes
                /\ recipe' = [NoRecipe EXCEPT !.error = v.exc, !.invalidKeys = v.keys]
                /\ pc' = "readFailed"
    /\ UNCHANGED <<lastOp, cfg, engine, run, command>>

\* The alias of the target org initializeTargetOrg() leaves in the engine
\* context ("": none).
TargetOrgAliases == {"", "org"}

\* What the property access on null or undefined throws.
TypeError == Raw("TypeError")

\* A variant of the order below in which the engine result detail is
\* initialized before the action map.
EngineHooksDetailBeforeActionMap ==
    <<"initializeRecipeEngineContext", "initializeTargetOrg",
      "initializePreBuildStepGroups", "initializePostBuildStepGroups",
      "initializeSkipActions", "initializeSkipGroups",
      "initializeEngineResultDetail", "initializeActionMap">>

\* The initialization hooks of compile(), in the order it awaits them.
EngineHooks ==
    <<"initializeRecipeEngineContext", "initializeTargetOrg",
      "initializePreBuildStepGroups", "initializePostBuildStepGroups",
      "initializeSkipActions", "initializeSkipGroups", "initializeActionMap",
      "initializeEngineResultDetail">>

\* What a hook of the concrete engine can do: throw, or leave a value in the
\* member it is there to initialize (the target org's alias, an array or
\* something else, a Map that is empty or filled or no Map at all).
HookOutcomes(name) ==
    CASE name = "initializeRecipeEngineContext" -> {"done", "throws"}
      [] name = "initializeTargetOrg" -> TargetOrgAliases \cup {"throws"}
      [] name \in {"initializePreBuildStepGroups", "initializePostBuildStepGroups",
                   "initializeSkipActions", "initializeSkipGroups"}
            -> {"array", "undefined", "throws"}
      [] name = "initializeActionMap" -> {"filled", "empty", "undefined", "throws"}
      [] OTHER -> {"done"}

\* What the hooks of AppxDemoConfigEngine leave.
AppxDemoOutcome(name, alias) ==
    CASE name = "initializeTargetOrg" -> alias
      [] name \in {"initializePreBuildStepGroups", "initializePostBuildStepGroups",
                   "initializeSkipActions", "initializeSkipGroups"} -> "array"
      [] name = "initializeActionMap" ->
            IF ActionExecutorMap = {} THEN "empty" ELSE "filled"
      [] OTHER -> "done"

\* What the hook throws: its own Error, or the TypeError of
\* initializeEngineResultDetail() reading the keys of a missing action map.
HookThrows(name, e, out) ==
    IF out = "throws" THEN Raw("HookError")
    ELSE IF name = "initializeEngineResultDetail" /\ e.actionExecutorMap = "undefined"
    THEN TypeError
    ELSE None

\* The engine once the hook has completed with the outcome out.
RunHook(name, e, c, out) ==
    LET e1 == [e EXCEPT !.steps = Append(@, name)]
    IN  CASE name = "initializeRecipeEngineContext" ->
                [e1 EXCEPT !.haltOnError = c.haltOnError]
          [] name = "initializeTargetOrg" -> [e1 EXCEPT !.targetOrgAlias = out]
          [] name = "initializePreBuildStepGroups" ->
                [e1 EXCEPT !.preBuildIsArray = (out = "array")]
          [] name = "initializePostBuildStepGroups" ->
                [e1 EXCEPT !.postBuildIsArray = (out = "array")]
          [] name = "initializeSkipActions" ->
                [e1 EXCEPT !.skipActionsIsArray = (out = "array"),
                           !.skipActions = IF out = "array" THEN c.skipActions ELSE {}]
          [] name = "initializeSkipGroups" ->
                [e1 EXCEPT !.skipGroupsIsArray = (out = "array"),
                           !.skipGroups = IF out = "array" THEN c.skipGroups ELSE {}]
          [] name = "initializeActionMap" -> [e1 EXCEPT !.actionExecutorMap = out]
          [] OTHER -> e1

\* The hooks from the k-th on, each leaving what AppxDemoConfigEngine leaves.
RECURSIVE RunHooks(_, _, _, _)
RunHooks(k, e, c, alias) ==
    IF k > Len(EngineHooks) THEN e
    ELSE RunHooks(k + 1,
                  RunHook(EngineHooks[k], e, c, AppxDemoOutcome(EngineHooks[k], alias)),
                  c, alias)

\* The engine context once the initialization hooks of compile() have run.
HookedContext(c, alias) == RunHooks(1, NewEngine, c, alias)

\* A variant of validateEngine() without the check of the target org.
ValidateEngineWithoutTargetOrg(ctx) ==
    IF ctx.actionExecutorMap = "empty" THEN Raw("ERROR_INVALID_ENGINE")
    ELSE IF ~ctx.preBuildIsArray THEN Raw("ERROR_INVALID_ENGINE")
    ELSE IF ~ctx.postBuildIsArray THEN Raw("ERROR_INVALID_ENGINE")
    ELSE IF ~ctx.skipActionsIsArray THEN Raw("ERROR_INVALID_ENGINE_CONTEXT")
    ELSE IF ~ctx.skipGroupsIsArray THEN Raw("ERROR_INVALID_ENGINE_CONTEXT")
    ELSE None

\* AppxRecipeEngine.validateEngine(): the first check that fails throws; an
\* action map that is no Map passes the first check.
ValidateEngine(ctx) ==
    IF ctx.actionExecutorMap = "empty" THEN Raw("ERROR_INVALID_ENGINE")
    ELSE IF ~ctx.preBuildIsArray THEN Raw("ERROR_INVALID_ENGINE")
    ELSE IF ~ctx.postBuildIsArray THEN Raw("ERROR_INVALID_ENGINE")
    ELSE IF ctx.targetOrgAlias = "" THEN Raw("ERROR_INVALID_ENGINE_CONTEXT")
    ELSE IF ~ctx.skipActionsIsArray THEN Raw("ERROR_INVALID_ENGINE_CONTEXT")
    ELSE IF ~ctx.skipGroupsIsArray THEN Raw("ERROR_INVALID_ENGINE_CONTEXT")
    ELSE None

\* compile(), the step after the hooks: validateEngine() marks the engine
\* initialized when every check has passed.
ValidateEngineStep(ctx) ==
    LET v == ValidateEngine(ctx)
    IN  [exc    |-> v,
         engine |-> [ctx EXCEPT !.steps = Append(@, "validateEngine"),
                                !.initialized = (v = None)]]

\* compile(), its last step: compileAllTasks() builds the plan when the
\* engine is marked initialized.
CompileAllTasksStep(ctx, c) ==
    LET ctx1 == [ctx EXCEPT !.steps = Append(@, "compileAllTasks")]
    IN  IF ctx.initialized # TRUE
        THEN [exc |-> Raw("ERROR_ENGINE_NOT_INITIALIZED"), engine |-> ctx1]
        ELSE [exc    |-> None,
              engine |-> [ctx1 EXCEPT !.listrTasks = CompileAllTasks(ctx, c),
                                      !.tasksSet = TRUE]]

\* AppxRecipeEngine.compile(recipe): the validated check, the hooks,
\* validateEngine() and compileAllTasks().
EngineCompile(r, c, alias) ==
    IF r.validated # TRUE
    THEN [exc |-> Raw("ERROR_INVALID_RECIPE"), engine |-> NewEngine]
    ELSE LET v == ValidateEngineStep(HookedContext(c, alias))
         IN  IF v.exc # None THEN v ELSE CompileAllTasksStep(v.engine, c)

\* A variant of the operator below in which compileAllTasks() builds the
\* complete list inside the recipe's own array.
RecipeStepGroupsAfterCompileInPlace(c) == CompleteRecipeStepGroups(c)

\* compileAllTasks(): the complete list is a new array built by spreading, so
\* the recipe's own recipeStepGroups array is as it was.
RecipeStepGroupsAfterCompile(c) == c.recipeStepGroups

\* SfdxFalconRecipe.compile(): an APPX_DEMO recipe has its engine constructed
\* (with its ENGINE result) and compiled by compileRecipe(), and the engine is
\* stored; an APPX_PACKAGE recipe gets no engine; then compiled is set.
RecipeCompile ==
    /\ pc = "read"
    /\ recipe.returned
    /\ \E alias \in TargetOrgAliases :
          IF cfg.recipeType = "APPX_DEMO"
          THEN LET e == EngineCompile(recipe, cfg, alias)
               IN  /\ nodes' = CreateResult(nodes, "ENGINE", FALSE, TRUE, TRUE)
                   /\ engine' = e.engine
                   /\ IF e.exc = None
                      THEN /\ recipe' = [recipe EXCEPT !.compiled = TRUE,
                                                       !.engineSet = TRUE]
                           /\ cfg' = [cfg EXCEPT !.recipeStepGroups =
                                                    RecipeStepGroupsAfterCompile(cfg)]
                           /\ pc' = "compiled"
                      ELSE /\ recipe' = [recipe EXCEPT !.error = e.exc]
                           /\ pc' = "compileFailed"
                           /\ UNCHANGED cfg
          ELSE IF cfg.recipeType = "APPX_PACKAGE"
          THEN /\ recipe' = [recipe EXCEPT !.compiled = TRUE]
               /\ pc' = "compiled"
               /\ UNCHANGED <<nodes, engine, cfg>>
          ELSE /\ recipe' = [recipe EXCEPT !.error = Raw("ERROR_INVALID_RECIPE")]
               /\ pc' = "compileFailed"
               /\ UNCHANGED <<nodes, engine, cfg>>
    /\ UNCHANGED <<lastOp, run, command>>

\* A variant of the check below that lets every recipe through.
RecipeExecuteStartUnchecked(r) == None

\* SfdxFalconRecipe.execute(), its first statement: the recipe must be compiled.
RecipeExecuteStart(r) ==
    IF r.compiled # TRUE THEN Raw("ERROR_RECIPE_NOT_COMPILED") ELSE None

\* A variant of the check below that lets every engine through.
EngineExecuteStartUnchecked(e) == None

\* AppxRecipeEngine.execute(), its first statement: listrTasks must not be null.
EngineExecuteStart(e) ==
    IF ~e.tasksSet THEN Raw("ERROR_RECIPE_NOT_COMPILED") ELSE None

\* SfdxFalconRecipe.execute() on a compiled recipe that holds a compiled
\* engine: the engine's execute() is called, startExecution() runs and the
\* Listr run starts.
RecipeExecute ==
    /\ pc \in {"read", "compileFailed", "compiled"}
    /\ recipe.returned
    /\ RecipeExecuteStart(recipe) = None
    /\ recipe.engineSet
    /\ EngineExecuteStart(engine) = None
    /\ run' = [run EXCEPT !.engineCalled = TRUE, !.started = TRUE]
    /\ pc' = "listr"
    /\ UNCHANGED <<nodes, lastOp, cfg, recipe, engine, command>>

\* SfdxFalconRecipe.execute() that ends before any task runs: the recipe is
\* not compiled, or it holds no engine (the call on the missing engine throws
\* a TypeError), or the engine's execute() rejects at its first statement.
RecipeExecuteThrows ==
    /\ pc \in {"read", "compileFailed", "compiled"}
    /\ recipe.returned
    /\ IF RecipeExecuteStart(recipe) # None
       THEN /\ run' = [run EXCEPT !.outcome = [settled |-> "rejected",
                                               val |-> RecipeExecuteStart(recipe)]]
            /\ nodes' = nodes
       ELSE IF ~recipe.engineSet
       THEN /\ run' = [run EXCEPT !.outcome = [settled |-> "rejected",
                                               val |-> Raw("TypeError")]]
            /\ nodes' = nodes
       ELSE /\ EngineExecuteStart(engine) # None
            /\ LET e == [ns |-> nodes, settled |-> "rejected",
                         val |-> EngineExecuteStart(engine)]
                   r == RecipeExecuteSettle(nodes, e)
               IN  /\ nodes' = r.ns
                   /\ run' = [run EXCEPT
                                !.engineCalled = TRUE,
                                !.engineOutcome = [settled |-> e.settled, val |-> e.val],
                                !.outcome = [settled |-> r.settled, val |-> r.val]]
    /\ pc' = "done"
    /\ UNCHANGED <<lastOp, cfg, recipe, engine, command>>

\* AppxRecipeEngine.execute() called on an engine whose compile() did not
\* complete: it rejects at its first statement; past that statement the Listr
\* run of the missing plan throws a TypeError into onError().
EngineExecuteNotCompiled ==
    /\ pc = "compileFailed"
    /\ engine.constructed
    /\ ~engine.tasksSet
    /\ IF EngineExecuteStart(engine) # None
       THEN /\ run' = [run EXCEPT
                         !.engineCalled = TRUE,
                         !.engineOutcome = [settled |-> "rejected",
                                            val |-> EngineExecuteStart(engine)]]
            /\ nodes' = nodes
       ELSE LET e == EngineExecuteSettle(nodes, Raw("TypeError"), engine)
            IN  /\ run' = [run EXCEPT
                             !.engineCalled = TRUE, !.started = TRUE,
                             !.engineOutcome = [settled |-> e.settled, val |-> e.val]]
                /\ nodes' = e.ns
    /\ pc' = "done"
    /\ UNCHANGED <<lastOp, cfg, recipe, engine, command>>

\* Listr starts the next parent task: compileSubTasks() of its group.
ListrParentTask ==
    /\ pc = "listr"
    /\ ~run.inSub
    /\ run.gi < Len(engine.listrTasks)
    /\ LET c == CompileSubTasks(engine, engine.listrTasks[run.gi + 1])
       IN  IF c.exc = None
           THEN /\ run' = [run EXCEPT !.gi = @ + 1, !.inSub = TRUE,
                                      !.sub = c.tasks, !.si = 0]
                /\ pc' = "listr"
           ELSE /\ run' = [run EXCEPT !.gi = @ + 1, !.err = c.exc]
                /\ pc' = "rejected"
    /\ UNCHANGED <<nodes, lastOp, cfg, recipe, engine, command>>

\* The message of the Error executeStep() throws for an unregistered action.
UnknownAction(action) == "ERROR_UNKNOWN_ACTION: '" \o action \o "'"

\* A variant of the lookup below that finds an executor for every action.
ExecuteStepLookupAlwaysFinds(recipeStep) == None

\* executeStep(), the lookup of the step's action in actionExecutorMap: an
\* Error naming the action when there is no executor for it.
ExecuteStepLookup(recipeStep) ==
    IF recipeStep.action \notin ActionExecutorMap
    THEN Raw(UnknownAction(recipeStep.action))
    ELSE None

\* A variant of the action context below that leaves the target org out.
ActionContextWithoutTargetOrg(ctx) ==
    [skipActions    |-> ctx.skipActions,
     skipGroups     |-> ctx.skipGroups,
     targetOrgAlias |-> "",
     haltOnError    |-> ctx.haltOnError,
     initialized    |-> ctx.initialized]

\* executeStep(), the action context: a copy of the members of the engine
\* context, made anew for each step.
ActionContext(ctx) ==
    [skipActions    |-> ctx.skipActions,
     skipGroups     |-> ctx.skipGroups,
     targetOrgAlias |-> ctx.targetOrgAlias,
     haltOnError    |-> ctx.haltOnError,
     initialized    |-> ctx.initialized]

\* Listr starts the next sub task: executeStep() looks the action up and,
\* when it is registered, the action creates its ACTION result and calls
\* its executor.
ListrSubTask ==
    /\ pc = "listr"
    /\ run.inSub
    /\ run.si < Len(run.sub)
    /\ LET step == run.sub[run.si + 1]
       IN  IF ExecuteStepLookup(step) = None
           THEN /\ nodes' = CreateResult(nodes, "ACTION", TRUE, TRUE, TRUE)
                /\ run' = [run EXCEPT !.si = @ + 1, !.inflight = Len(nodes) + 1,
                                      !.invoked = Append(@, step),
                                      !.contexts = Append(@, ActionContext(engine)),
                                      !.actionResults = Append(@, Len(nodes) + 1)]
           ELSE /\ nodes' = nodes
                /\ run' = [run EXCEPT !.si = @ + 1, !.inflight = 0,
                                      !.invoked = Append(@, step),
                                      !.contexts = Append(@, ActionContext(engine)),
                                      !.actionResults = Append(@, 0)]
    /\ pc' = "step"
    /\ UNCHANGED <<lastOp, cfg, recipe, engine, command>>

\* The task's observer after the handlers of executeStep's promise ran:
\* complete() lets Listr go on, error() makes the Listr run reject.
ObserverSettle(e, fulfilled) ==
    /\ nodes' = e.ns
    /\ IF e.exc = None
       THEN /\ pc' = "listr"
            /\ run' = [run EXCEPT !.inflight = 0, !.inSub = (run.si < Len(run.sub)),
                          !.settled = Append(@, fulfilled)]
       ELSE /\ pc' = "rejected"
            /\ run' = [run EXCEPT !.inflight = 0, !.err = e.exc,
                          !.settled = Append(@, fulfilled)]
    /\ UNCHANGED <<lastOp, cfg, recipe, engine, command>>

\* The executor of the action in flight settles: the action's handlers run,
\* then the engine's handlers of executeStep's promise.
StepSettle(o) ==
    /\ pc = "step"
    /\ run.inflight # 0
    /\ LET a == DeployMetadataSettle(nodes, run.inflight, o)
       IN  ObserverSettle(IF a.settled = "resolved"
                          THEN EngineStepThen(a.ns, a.val)
                          ELSE EngineStepCatch(a.ns, a.val),
                          a.settled = "resolved")

\* executeStep() found no executor for the step's action: its promise
\* rejects with a plain Error.
UnknownActionRejects ==
    /\ pc = "step"
    /\ run.inflight = 0
    /\ ObserverSettle(EngineStepCatch(nodes, ExecuteStepLookup(Last(run.invoked))), FALSE)

\* The engine's and the recipe's execute() settle, given what the Listr run
\* settled with.
ExecuteSettle(listr) ==
    LET e == EngineExecuteSettle(nodes, listr, engine)
        r == RecipeExecuteSettle(e.ns, e)
    IN  /\ nodes' = r.ns
        /\ run' = [run EXCEPT !.engineOutcome = [settled |-> e.settled, val |-> e.val],
                              !.outcome = [settled |-> r.settled, val |-> r.val]]
        /\ pc' = "done"
        /\ UNCHANGED <<lastOp, cfg, recipe, engine, command>>

\* The Listr run ran every parent task to its end and resolves.
ListrResolves ==
    /\ pc = "listr"
    /\ ~run.inSub
    /\ run.gi = Len(engine.listrTasks)
    /\ ExecuteSettle(None)

\* The Listr run rejects with what a task failed with.
ListrRejects ==
    /\ pc = "rejected"
    /\ ExecuteSettle(run.err)

Next ==
    \/ RecipeRead
    \/ RecipeCompile
    \/ RecipeExecute
    \/ RecipeExecuteThrows
    \/ EngineExecuteNotCompiled
    \/ ListrParentTask
    \/ ListrSubTask
    \/ \E o \in ExecutorOutcomes : StepSettle(o)
    \/ UnknownActionRejects
    \/ ListrResolves
    \/ ListrRejects

Spec == Init /\ [][Next]_vars

\* The recipes whose runs are followed to their end: those without injected
\* groups and with nothing skipped.
LiveConfigs ==
    {c \in Configs :
        /\ c.preBuildStepGroups = <<>>
        /\ c.postBuildStepGroups = <<>>
        /\ c.skipGroups = {}
        /\ c.skipActions = {}}

LiveInit ==
    /\ cfg \in LiveConfigs
    /\ nodes = <<>>
    /\ lastOp = NoOp
    /\ recipe = NoRecipe
    /\ engine = NoEngine
    /\ pc = "file"
    /\ run = RunInit
    /\ command = NoCommand

\* The runs when nothing stays pending for ever: the caller goes on to
\* compile and execute, Listr starts the next task when one has completed,
\* and every executor that was called settles.
SpecLive == LiveInit /\ [][Next]_vars /\ WF_vars(Next)

----------------------------------------------------------------------------
(* SpecNode: one parent result and the results added to it, under any       *)
(* sequence of create, addChild, success, error, failure and warning.       *)

ParentId == 1

NodeInit ==
    /\ nodes = <<>>
    /\ lastOp = NoOp
    /\ cfg = RecipeFile([k \in {TopLevelKeys[i] : i \in 1..Len(TopLevelKeys)} |-> "value"],
                         "APPX_DEMO")
    /\ recipe = NoRecipe
    /\ engine = NoEngine
    /\ pc = "node"
    /\ run = RunInit
    /\ command = NoCommand

NodeFrame == UNCHANGED <<cfg, recipe, engine, pc, run, command>>

\* new SfdxFalconResult(...) for the parent, with any options
NodeCreate(startNow, bubbleError, bubbleFailure) ==
    /\ nodes = <<>>
    /\ nodes' = CreateResult(nodes, "ACTION", startNow, bubbleError, bubbleFailure)
    /\ lastOp' = [NoOp EXCEPT !.op = "create", !.node = Len(nodes) + 1,
                              !.pre = IF startNow THEN "startNow" ELSE "none"]
    /\ NodeFrame

\* new SfdxFalconResult(...) for a result that can be added to the parent
ChildCreate(startNow) ==
    /\ nodes # <<>>
    /\ Len(nodes) < MaxNodes
    /\ nodes' = CreateResult(nodes, "EXECUTOR", startNow, TRUE, TRUE)
    /\ lastOp' = [NoOp EXCEPT !.op = "create", !.node = Len(nodes) + 1,
                              !.pre = IF startNow THEN "startNow" ELSE "none"]
    /\ NodeFrame

\* A call of one of the terminal transitions on node i.
NodeFinish(i, op, r) ==
    /\ nodes' = r.ns
    /\ lastOp' = [op |-> op, node |-> i, child |-> 0, pre |-> nodes[i].status,
                  exc |-> r.exc]
    /\ NodeFrame

NodeSuccess(i) == NodeFinish(i, "success", ResultSuccess(nodes, i))

NodeError(i) == NodeFinish(i, "error", ResultError(nodes, i, "E1"))

NodeFailure(i) == NodeFinish(i, "failure", ResultFailure(nodes, i))

NodeWarning(i) == NodeFinish(i, "warning", ResultWarning(nodes, i))

\* parent.addChild(c); c may be the parent itself.
NodeAddChild(c) ==
    /\ nodes # <<>>
    /\ Len(nodes[ParentId].children) < MaxChildren
    /\ LET r == AddChild(nodes, ParentId, c)
       IN  /\ nodes' = r.ns
           /\ lastOp' = [op |-> "addChild", node |-> ParentId, child |-> c,
                         pre |-> nodes[ParentId].status, exc |-> r.exc]
    /\ NodeFrame

NodeNext ==
    \/ \E s, e, f \in BOOLEAN : NodeCreate(s, e, f)
    \/ \E s \in BOOLEAN : ChildCreate(s)
    \/ \E i \in 1..Len(nodes) : NodeSuccess(i)
    \/ \E i \in 1..Len(nodes) : NodeError(i)
    \/ \E i \in 1..Len(nodes) : NodeFailure(i)
    \/ \E i \in 1..Len(nodes) : NodeWarning(i)
    \/ \E c \in 1..Len(nodes) : NodeAddChild(c)

SpecNode == NodeInit /\ [][NodeNext]_vars

----------------------------------------------------------------------------
(* Claims about the result node (SpecNode) *)

FinishOps == {"success", "error", "failure", "warning"}

DoubleFinalization == Raw("DoubleFinalization")

\* C2: a terminal transition (success, error, failure, warning) called on a
\* node that is already terminal fails with DoubleFinalization and leaves
\* the node in the status its first terminal transition set.
C2_DoubleFinalization ==
    (lastOp.op \in FinishOps /\ IsTerminal(lastOp.pre))
        => /\ lastOp.exc = DoubleFinalization
           /\ nodes[lastOp.node].status = lastOp.pre

C2_Witness ==
    /\ lastOp.op = "success"
    /\ lastOp.pre = "ERROR"
    /\ lastOp.exc = DoubleFinalization
    /\ nodes[lastOp.node].status = "ERROR"

\* C3: a node's status only moves forward: a created node is RUNNING with
\* startNow and INITIALIZED without, no operation takes a node back to
\* INITIALIZED or from a terminal status to any other status, also not the
\* bubbling of addChild.
C3_StatusForward ==
    [][/\ \A i \in 1..Len(nodes) :
            /\ IsTerminal(nodes[i].status) => nodes'[i].status = nodes[i].status
            /\ nodes[i].status = "RUNNING" => nodes'[i].status # "INITIALIZED"
            /\ nodes'[i].status # nodes[i].status => IsTerminal(nodes'[i].status)
       /\ \A i \in (Len(nodes) + 1)..Len(nodes') :
            nodes'[i].status = IF lastOp'.pre = "startNow" THEN "RUNNING"
                                                             ELSE "INITIALIZED"]_vars

\* The bubbling of addChild met a parent that was already terminal.
C3_Witness ==
    /\ lastOp.op = "addChild"
    /\ lastOp.pre = "SUCCESS"
    /\ nodes[lastOp.child].status = "ERROR"
    /\ nodes[ParentId].bubbleError
    /\ nodes[ParentId].status = "SUCCESS"

AddChildBubbles(p, c) ==
    \/ nodes[c].status = "ERROR" /\ nodes[p].bubbleError
    \/ nodes[c].status = "FAILURE" /\ nodes[p].bubbleFailure

C6_NoBubble ==
    /\ (/\ lastOp.op = "addChild"
        /\ nodes[lastOp.child].status = "ERROR"
        /\ ~nodes[lastOp.node].bubbleError)
            => /\ Last(nodes[lastOp.node].children) = lastOp.child
               /\ nodes[lastOp.node].status = lastOp.pre
               /\ lastOp.exc = None
    /\ (/\ lastOp.op = "success"
        /\ ~IsTerminal(lastOp.pre)
        /\ ~nodes[lastOp.node].bubbleError)
            => /\ nodes[lastOp.node].status = "SUCCESS"
               /\ lastOp.exc = None

\* The parent reached SUCCESS after an ERROR child was added to it.
C6_Witness ==
    /\ lastOp.op = "success"
    /\ lastOp.node = ParentId
    /\ lastOp.exc = None
    /\ ~nodes[ParentId].bubbleError
    /\ nodes[ParentId].status = "SUCCESS"
    /\ \E k \in 1..Len(nodes[ParentId].children) :
          /\ nodes[ParentId].children[k] # ParentId
          /\ nodes[nodes[ParentId].children[k]].status = "ERROR"

----------------------------------------------------------------------------
(* Claims about compilation and execution (Spec) *)

\* The groups in the order the recipe's author and the engine give them.
GroupsInOrder ==
    cfg.preBuildStepGroups \o cfg.recipeStepGroups \o cfg.postBuildStepGroups

SkippedGroup(g) ==
    \/ g.alias \in cfg.skipGroups
    \/ \A i \in 1..Len(g.steps) : g.steps[i].action \in cfg.skipActions

ActiveSteps(g) == SelectSeq(g.steps, LAMBDA s : s.action \notin cfg.skipActions)

RECURSIVE Flatten(_)
Flatten(ss) == IF ss = <<>> THEN <<>> ELSE Head(ss) \o Flatten(Tail(ss))

\* The steps of the recipe that skipGroups and skipActions do not remove.
ExpectedPlanSteps ==
    Flatten([i \in 1..Len(GroupsInOrder) |->
                IF SkippedGroup(GroupsInOrder[i]) THEN <<>>
                ELSE ActiveSteps(GroupsInOrder[i])])

PositionIn(seq, x) == CHOOSE k \in 1..Len(seq) : seq[k] = x

Occurrences(seq, x) == Cardinality({k \in 1..Len(seq) : seq[k] = x})

\* The group a step belongs to (a step's name holds its group's alias).
GroupOfStep(s) ==
    CHOOSE k \in 1..Len(GroupsInOrder) : GroupsInOrder[k].alias = s.name[1]

EngineStatus == nodes[EngineResultId].status

RecipeStatus == nodes[RecipeResultId].status

\* The index of the first invoked step whose action did not resolve (0: none).
FirstFailure ==
    IF \E k \in 1..Len(run.settled) : ~run.settled[k]
    THEN CHOOSE k \in 1..Len(run.settled) :
            ~run.settled[k] /\ \A j \in 1..(k - 1) : run.settled[j]
    ELSE 0

\* C1: once execute() has settled, the RECIPE result is SUCCESS iff every
\* step that skipGroups / skipActions leave in the plan was run and its
\* action resolved.
C1_SuccessIffAllResolved ==
    pc = "done" /\ recipe.validated /\ recipe.compiled =>
        (RecipeStatus = "SUCCESS"
            <=> /\ run.invoked = ExpectedPlanSteps
                /\ Len(run.settled) = Len(run.invoked)
                /\ \A k \in 1..Len(run.settled) : run.settled[k])

\* C5: the first step whose action fails makes the ENGINE result ERROR, and
\* no later step of the plan is invoked.
C5_Original ==
    FirstFailure # 0 =>
        /\ EngineStatus = "ERROR"
        /\ Len(run.invoked) = FirstFailure

\* C7: the compiled plan holds no group whose alias is in skipGroups and no
\* group whose every step's action is in skipActions, and holds every other
\* group exactly once.
C7_SkippedGroupsAbsent ==
    engine.tasksSet =>
        \A i \in 1..Len(GroupsInOrder) :
            Occurrences(engine.listrTasks, GroupsInOrder[i])
                = IF SkippedGroup(GroupsInOrder[i]) THEN 0 ELSE 1

\* One group skipped by alias, one dropped because all its steps are skipped,
\* one compiled.
C7_Witness ==
    /\ engine.tasksSet
    /\ Len(engine.listrTasks) = 1
    /\ \E i, j \in 1..Len(GroupsInOrder) :
          /\ GroupsInOrder[i].alias \in cfg.skipGroups
          /\ GroupsInOrder[i].steps # <<>>
          /\ GroupsInOrder[j].alias \notin cfg.skipGroups
          /\ GroupsInOrder[j].steps # <<>>
          /\ \A k \in 1..Len(GroupsInOrder[j].steps) :
                GroupsInOrder[j].steps[k].action \in cfg.skipActions

\* The steps handed to executeStep so far that belong to the running group.
InvokedOfGroup(g) == SelectSeq(run.invoked, LAMBDA s : s.name[1] = g.alias)

\* C8: the sub tasks of a compiled group are its steps whose action is not
\* in skipActions, one task per step and in the order of the steps; no step
\* whose action is in skipActions is ever handed to executeStep, and the
\* steps handed to it are the tasks started so far.
C8_SkippedStepsNoTask ==
    /\ \A k \in 1..Len(run.invoked) : run.invoked[k].action \notin cfg.skipActions
    /\ run.gi > 0 =>
        LET g == engine.listrTasks[run.gi]
        IN  /\ run.sub = ActiveSteps(g)
            /\ \A k \in 1..Len(g.steps) :
                  Occurrences(run.sub, g.steps[k])
                      = IF g.steps[k].action \in cfg.skipActions THEN 0 ELSE 1
            /\ InvokedOfGroup(g) = SubSeq(run.sub, 1, run.si)

\* A group with a skipped first step and an active second step ran its task.
C8_Witness ==
    /\ run.gi > 0
    /\ Len(engine.listrTasks[run.gi].steps) = 2
    /\ engine.listrTasks[run.gi].steps[1].action \in cfg.skipActions
    /\ run.sub = <<engine.listrTasks[run.gi].steps[2]>>
    /\ run.invoked # <<>>
    /\ Last(run.invoked) = engine.listrTasks[run.gi].steps[2]

\* C9: the plan keeps the order pre-build groups, recipe groups, post-build
\* groups, and when a step is handed to executeStep every task of every
\* earlier group of the plan has been handed to it before.
C9_GroupOrder ==
    /\ engine.tasksSet =>
        \A i, j \in 1..Len(engine.listrTasks) :
            i < j => PositionIn(GroupsInOrder, engine.listrTasks[i])
                        < PositionIn(GroupsInOrder, engine.listrTasks[j])
    /\ \A k \in 1..Len(run.invoked) :
          /\ \A j \in 1..(k - 1) :
                GroupOfStep(run.invoked[j]) <= GroupOfStep(run.invoked[k])
          /\ \A i \in 1..(GroupOfStep(run.invoked[k]) - 1) :
                ~SkippedGroup(GroupsInOrder[i]) =>
                    \A n \in 1..Len(ActiveSteps(GroupsInOrder[i])) :
                        \E j \in 1..(k - 1) :
                            run.invoked[j] = ActiveSteps(GroupsInOrder[i])[n]

\* Steps of a pre-build group, a recipe group and a post-build group ran.
C9_Witness ==
    /\ pc = "done"
    /\ Len(engine.listrTasks) = 3
    /\ Len(run.invoked) >= 3
    /\ run.invoked[1].name[1] = <<"PRE", 1>>
    /\ Last(run.invoked).name[1] = <<"POST", 1>>

\* C10 as stated: a plan with a step group whose steps list is empty does not
\* compile: no task plan is set, whatever the skip lists hold.
C10_Original ==
    /\ cfg.recipeType = "APPX_DEMO"
    /\ \E i \in 1..Len(GroupsInOrder) : GroupsInOrder[i].steps = <<>>
    => ~engine.tasksSet /\ ~recipe.compiled

\* C11: execution is strictly sequential. While a step's action is in flight
\* it is the only one (every step started before it has settled); a step is
\* started only when no action is in flight, every step started before it has
\* resolved and has its ACTION result among the ENGINE result's children, one
\* child per step; and a step of an earlier group never starts after a step of
\* a later group.
C11_Sequential ==
    [][/\ pc' = "step" => /\ run'.inflight # 0 \/ Last(run'.invoked).action \notin ActionExecutorMap
                          /\ Len(run'.settled) = Len(run'.invoked) - 1
       /\ Len(run'.invoked) > Len(run.invoked) =>
            /\ pc = "listr"
            /\ run.inflight = 0
            /\ Len(run'.invoked) = Len(run.invoked) + 1
            /\ Len(run.settled) = Len(run.invoked)
            /\ \A k \in 1..Len(run.settled) : run.settled[k]
            /\ Len(nodes[EngineResultId].children) = Len(run.invoked)
            /\ \A k \in 1..Len(run.invoked) :
                  /\ nodes[nodes[EngineResultId].children[k]].type = "ACTION"
                  /\ \A j \in 1..(k - 1) :
                        nodes[EngineResultId].children[j] # nodes[EngineResultId].children[k]
                  /\ GroupOfStep(run.invoked[k]) <= GroupOfStep(Last(run'.invoked))
      ]_vars

\* A step of a second group is in flight after the steps of the first settled.
C11_Witness ==
    /\ pc = "step"
    /\ run.inflight # 0
    /\ run.gi = 2
    /\ Len(run.invoked) >= 2
    /\ Len(nodes[EngineResultId].children) = Len(run.invoked) - 1

\* The recipe's execute() settles in this step.
RecipeExecuteSettles ==
    run.outcome.settled = "pending" /\ run'.outcome.settled # "pending"

\* C12: execute() of a recipe whose compiled flag is not true rejects with
\* ERROR_RECIPE_NOT_COMPILED, the engine's execute() is not called and the
\* RECIPE result (status, children) is as before.
C12_NotCompiled ==
    [][RecipeExecuteSettles /\ recipe.compiled # TRUE =>
          /\ run'.outcome = [settled |-> "rejected",
                             val |-> Raw("ERROR_RECIPE_NOT_COMPILED")]
          /\ ~run'.engineCalled
          /\ run'.invoked = <<>>
          /\ nodes'[RecipeResultId] = nodes[RecipeResultId]
      ]_vars

\* execute() was refused on a recipe whose compile() had failed.
C12_Witness ==
    /\ pc = "done"
    /\ recipe.returned
    /\ ~recipe.compiled
    /\ recipe.error # None
    /\ run.outcome.val = Raw("ERROR_RECIPE_NOT_COMPILED")

C14_Original ==
    run.started /\ run.engineOutcome.settled = "rejected" =>
        /\ run.engineOutcome.val = NodeVal(EngineResultId)
        /\ nodes[EngineResultId].type = "ENGINE"
        /\ nodes[EngineResultId].status = "ERROR"

\* C15: the engine's execute() called while listrTasks is null rejects with
\* ERROR_RECIPE_NOT_COMPILED before startExecution() or any step runs, and the
\* ENGINE result is as before.
C15_EngineNotCompiled ==
    [][~run.engineCalled /\ run'.engineCalled /\ ~engine.tasksSet =>
          /\ run'.engineOutcome = [settled |-> "rejected",
                                   val |-> Raw("ERROR_RECIPE_NOT_COMPILED")]
          /\ ~run'.started
          /\ run'.invoked = <<>>
          /\ nodes'[EngineResultId] = nodes[EngineResultId]
      ]_vars

\* execute() was refused on an engine whose compile() had failed.
C15_Witness ==
    /\ pc = "done"
    /\ engine.constructed
    /\ ~engine.tasksSet
    /\ run.engineCalled
    /\ run.engineOutcome.val = Raw("ERROR_RECIPE_NOT_COMPILED")
    /\ nodes[EngineResultId].status = "INITIALIZED"

\* C16: validated and compiled never go back from true to false, compiled is
\* true only when validated is, and the engine's compile() refuses a recipe
\* that is not validated before any initialization hook has run (the engine
\* is left as its constructor made it).
C16_FlagsMonotonic ==
    [][/\ recipe.validated => recipe'.validated
       /\ recipe.compiled => recipe'.compiled
       /\ recipe'.compiled => recipe'.validated
       /\ \A alias \in TargetOrgAliases :
             LET e == EngineCompile([NewRecipe EXCEPT !.validated = FALSE], cfg, alias)
             IN  /\ e.exc = Raw("ERROR_INVALID_RECIPE")
                 /\ e.engine = NewEngine
      ]_vars

\* A recipe was read, compiled and executed, and both flags are still true.
C16_Witness ==
    /\ pc = "done"
    /\ recipe.validated
    /\ recipe.compiled
    /\ run.outcome.settled # "pending"
    /\ run.invoked # <<>>

\* C17: once compile() has returned for a recipe that read() accepted,
\* compiled is true and the recipe holds the engine its type's compileRecipe
\* produced; when compile() throws, compiled stays false.
C17_Original ==
    /\ pc = "compiled" => recipe.compiled /\ recipe.engineSet
    /\ pc = "compileFailed" => ~recipe.compiled /\ recipe.error # None

\* C18: compile() and execute() leave the recipe's declarative fields
\* (recipeName, description, recipeType, recipeVersion, schemaVersion, options,
\* recipeStepGroups, handlers) exactly as read() filled them.
C18_DeclarativeFieldsUnchanged ==
    [][pc # "file" =>
          /\ cfg'.missing = cfg.missing
          /\ cfg'.recipeName = cfg.recipeName
          /\ cfg'.description = cfg.description
          /\ cfg'.recipeType = cfg.recipeType
          /\ cfg'.recipeVersion = cfg.recipeVersion
          /\ cfg'.schemaVersion = cfg.schemaVersion
          /\ cfg'.options = cfg.options
          /\ cfg'.skipGroups = cfg.skipGroups
          /\ cfg'.skipActions = cfg.skipActions
          /\ cfg'.recipeStepGroups = cfg.recipeStepGroups
          /\ cfg'.handlers = cfg.handlers
      ]_vars

\* A recipe whose engine injected a pre-build group was compiled and executed.
C18_Witness ==
    /\ pc = "done"
    /\ recipe.compiled
    /\ recipe.engineSet
    /\ cfg.preBuildStepGroups # <<>>
    /\ cfg.recipeStepGroups # <<>>
    /\ run.invoked # <<>>

----------------------------------------------------------------------------
(* SpecRead: read() tried on every shape of recipe file *)

ReadInit ==
    /\ cfg \in RecipeFiles
    /\ nodes = <<>>
    /\ lastOp = NoOp
    /\ recipe = NoRecipe
    /\ engine = NoEngine
    /\ pc = "file"
    /\ run = RunInit
    /\ command = NoCommand

ReadNext == RecipeRead

SpecRead == ReadInit /\ [][ReadNext]_vars

----------------------------------------------------------------------------
(* Claims about read() (SpecRead) *)

TopLevelKeySet == {TopLevelKeys[i] : i \in 1..Len(TopLevelKeys)}

\* The key is absent from the file.
KeyMissing(c, k) == k \in c.missing

\* The key is present with the empty value of its type: "", {} or [].
KeyEmpty(c, k) ==
    /\ k \notin c.missing
    /\ \/ k \in {"recipeName", "description", "recipeType", "recipeVersion",
                 "schemaVersion"} /\ c[k] = ""
       \/ k = "options" /\ c.options = "emptyObject"
       \/ k \in {"recipeStepGroups", "handlers"} /\ c[k] = <<>>

\* The key is present with an empty string.
KeyEmptyString(c, k) ==
    /\ KeyEmpty(c, k)
    /\ k \notin {"options", "recipeStepGroups", "handlers"}

ReadIsOver == pc \in {"read", "readFailed"}

\* The keys named by the error read() raised, as a set.
NamedKeys == {recipe.invalidKeys[i] : i \in 1..Len(recipe.invalidKeys)}

RegisteredEngineTypes == {"APPX_DEMO"}

\* C20: a recipe returned by read() is validated and has passed the top-level
\* key check and the validation of the engine registered for its type; a
\* recipe whose type has no registered engine is rejected with InvalidRecipe;
\* when validation fails no recipe object is returned.
C20_Original ==
    ReadIsOver =>
        /\ recipe.returned =>
              /\ recipe.validated
              /\ ValidateTopLevelProperties(cfg).exc = None
              /\ cfg.recipeType \in RegisteredEngineTypes
              /\ AppxDemoValidateRecipe(cfg) = None
        /\ cfg.recipeType \notin RegisteredEngineTypes =>
              /\ ~recipe.returned
              /\ recipe.error = Raw("ERROR_INVALID_RECIPE")
        /\ recipe.error # None => ~recipe.returned /\ nodes = <<>>

\* The same statement for the recipes of the one type that has an engine.
C20_AppxDemoOnly ==
    cfg.recipeType # "APPX_PACKAGE" => C20_Original

----------------------------------------------------------------------------
(* The values of a parsed recipe file, as the static validators see them *)

\* A JavaScript value with its type tag; v is its content as a string.
JsUndefined == [t |-> "undefined", v |-> ""]

JsString(str) == [t |-> "string", v |-> str]

JsBoolean(b) == [t |-> "boolean", v |-> IF b THEN "true" ELSE "false"]

JsNumber == [t |-> "number", v |-> "1"]

\* A value that is not an array, standing where an array is expected.
JsNotArray(type) == [t |-> type, items |-> <<>>]

JsArray(items) == [t |-> "array", items |-> items]

\* typeof value
TypeOf(x) == IF x.t \in {"null", "array"} THEN "object" ELSE x.t

\* Array.isArray(value)
IsArray(x) == x.t = "array"

\* A TargetOrg of options.targetOrgs.
TargetOrg(orgName, alias, description, isScratchOrg, scratchDefJson, orgReqsJson) ==
    [t              |-> "object",
     orgName        |-> orgName,
     alias          |-> alias,
     description    |-> description,
     isScratchOrg   |-> isScratchOrg,
     scratchDefJson |-> scratchDefJson,
     orgReqsJson    |-> orgReqsJson]

\* null standing where a TargetOrg is expected.
NullTargetOrg ==
    [TargetOrg(JsUndefined, JsUndefined, JsUndefined, JsUndefined, JsUndefined,
               JsUndefined) EXCEPT !.t = "null"]

\* The target orgs validateTargetOrg() is tried on.
TargetOrgInputs ==
    LET StringInputs         == {JsUndefined, JsString(""), JsString("x"), JsNumber}
        OptionalStringInputs == {JsUndefined, JsString(""), JsString("x")}
        BooleanInputs        == {JsUndefined, JsBoolean(TRUE), JsBoolean(FALSE),
                                 JsString("true")}
    IN  {TargetOrg(n, a, d, i, sd, rq) :
            n \in StringInputs, a \in StringInputs, d \in StringInputs,
            i \in BooleanInputs, sd \in OptionalStringInputs,
            rq \in OptionalStringInputs}
        \cup {NullTargetOrg}

\* The target orgs that fill the targetOrgs arrays of the recipes below: a
\* scratch org, the same without an alias, and null.
TargetOrgSamples ==
    LET ScratchOrg == TargetOrg(JsString("x"), JsString("x"), JsString("x"),
                                JsBoolean(TRUE), JsString("x"), JsUndefined)
    IN  {ScratchOrg, [ScratchOrg EXCEPT !.alias = JsString("")], NullTargetOrg}

\* An AppxEngineStepGroup of the file.
JsonStepGroup(stepGroupName, alias, description, recipeSteps) ==
    [t             |-> "object",
     stepGroupName |-> stepGroupName,
     alias         |-> alias,
     description   |-> description,
     recipeSteps   |-> recipeSteps]

GoodStepGroup ==
    JsonStepGroup(JsString("x"), JsString("x"), JsString("x"), JsArray(<<"step">>))

NullStepGroup ==
    [JsonStepGroup(JsUndefined, JsUndefined, JsUndefined, JsNotArray("undefined"))
        EXCEPT !.t = "null"]

\* The step groups that fill the recipeStepGroups arrays of the recipes below.
StepGroupSamples ==
    {GoodStepGroup,
     [GoodStepGroup EXCEPT !.recipeSteps = JsArray(<<>>)],
     [GoodStepGroup EXCEPT !.stepGroupName = JsUndefined],
     [GoodStepGroup EXCEPT !.alias = JsString("")],
     [GoodStepGroup EXCEPT !.description = JsNumber],
     [GoodStepGroup EXCEPT !.recipeSteps = JsNotArray("undefined")],
     NullStepGroup}

\* The options of a recipe file.
JsonOptions(type, skipGroups, skipActions, haltOnError, targetOrgs) ==
    [t           |-> type,
     skipGroups  |-> skipGroups,
     skipActions |-> skipActions,
     haltOnError |-> haltOnError,
     targetOrgs  |-> targetOrgs]

\* The options of the recipes below; options that is not an object has none
\* of the properties.
OptionsInputs ==
    LET OptionsOfType(type) ==
            JsonOptions(type, JsNotArray("undefined"), JsNotArray("undefined"),
                        JsUndefined, JsNotArray("undefined"))
        ArrayInputs == {JsNotArray("undefined"), JsNotArray("string"), JsArray(<<>>)}
    IN  {OptionsOfType("undefined"), OptionsOfType("string")}
        \cup {JsonOptions("object", sg, sa, h, orgs) :
                sg \in ArrayInputs,
                sa \in {JsNotArray("undefined"), JsArray(<<>>)},
                h \in {JsUndefined, JsBoolean(FALSE), JsString("true")},
                orgs \in {JsNotArray("undefined")}
                         \cup {JsArray(o) :
                                 o \in SeqsUpTo(TargetOrgSamples, MaxTargetOrgs)}}

\* The part of an SfdxFalconRecipeJson that validateOuterRecipe() reads.
JsonRecipe(options, recipeStepGroups, handlers) ==
    [options          |-> options,
     recipeStepGroups |-> recipeStepGroups,
     handlers         |-> handlers]

GoodOptions(org) ==
    JsonOptions("object", JsArray(<<>>), JsArray(<<>>), JsBoolean(TRUE), JsArray(<<org>>))

\* The recipes the validators are tried on: every combination of the options,
\* step groups and handlers above, and every target org in a recipe that is
\* valid but for that target org.
JsonRecipes ==
    {JsonRecipe(o, g, h) :
        o \in OptionsInputs,
        g \in {JsNotArray("undefined"), JsNotArray("string")}
              \cup {JsArray(gs) : gs \in SeqsUpTo(StepGroupSamples, MaxGroups)},
        h \in {JsNotArray("undefined"), JsArray(<<>>), JsArray(<<"handler">>)}}
    \cup {JsonRecipe(GoodOptions(org), JsArray(<<GoodStepGroup>>), JsArray(<<>>)) :
            org \in TargetOrgInputs}

----------------------------------------------------------------------------
(* AppxRecipeEngine: the static validators *)

InvalidRecipe == Raw("ERROR_INVALID_RECIPE")


\* typeof x !== 'string' || x === ''
NotAString(x) == TypeOf(x) # "string" \/ x.v = ""

\* x === true, x === false
IsTrue(x) == x.t = "boolean" /\ x.v = "true"

IsFalse(x) == x.t = "boolean" /\ x.v = "false"

\* A variant of the validator below that wants scratchDefJson of every org.
ValidateTargetOrgAlwaysScratchDef(targetOrg) ==
    IF targetOrg.t \in {"null", "undefined"} THEN TypeError
    ELSE IF NotAString(targetOrg.orgName) THEN InvalidRecipe
    ELSE IF NotAString(targetOrg.alias) THEN InvalidRecipe
    ELSE IF NotAString(targetOrg.description) THEN InvalidRecipe
    ELSE IF TypeOf(targetOrg.isScratchOrg) # "boolean" THEN InvalidRecipe
    ELSE IF NotAString(targetOrg.scratchDefJson) THEN InvalidRecipe
    ELSE IF IsFalse(targetOrg.isScratchOrg) /\ NotAString(targetOrg.orgReqsJson)
    THEN InvalidRecipe
    ELSE None

\* AppxRecipeEngine.validateTargetOrg: the first check that fails throws.
ValidateTargetOrg(targetOrg) ==
    IF targetOrg.t \in {"null", "undefined"} THEN TypeError
    ELSE IF NotAString(targetOrg.orgName) THEN InvalidRecipe
    ELSE IF NotAString(targetOrg.alias) THEN InvalidRecipe
    ELSE IF NotAString(targetOrg.description) THEN InvalidRecipe
    ELSE IF TypeOf(targetOrg.isScratchOrg) # "boolean" THEN InvalidRecipe
    ELSE IF IsTrue(targetOrg.isScratchOrg) /\ NotAString(targetOrg.scratchDefJson)
    THEN InvalidRecipe
    ELSE IF IsFalse(targetOrg.isScratchOrg) /\ NotAString(targetOrg.orgReqsJson)
    THEN InvalidRecipe
    ELSE None

\* AppxRecipeEngine.validateRecipeStep and validateHandler: empty bodies.
ValidateRecipeStep(recipeStep) == None

ValidateHandler(handler) == None

\* The first error in thrown, which holds for each element of an array in turn
\* what its validator throws.
RECURSIVE FirstError(_)
FirstError(thrown) ==
    IF thrown = <<>> THEN None
    ELSE IF Head(thrown) # None THEN Head(thrown)
    ELSE FirstError(Tail(thrown))

\* AppxRecipeEngine.validateRecipeStepGroup
ValidateRecipeStepGroup(stepGroup) ==
    IF stepGroup.t \in {"null", "undefined"} THEN TypeError
    ELSE IF NotAString(stepGroup.stepGroupName) THEN InvalidRecipe
    ELSE IF NotAString(stepGroup.alias) THEN InvalidRecipe
    ELSE IF NotAString(stepGroup.description) THEN InvalidRecipe
    ELSE IF ~IsArray(stepGroup.recipeSteps) THEN InvalidRecipe
    ELSE LET steps == stepGroup.recipeSteps.items
         IN  FirstError([i \in 1..Len(steps) |-> ValidateRecipeStep(steps[i])])

\* AppxRecipeEngine.validateOuterRecipe on the parsed file: the first check
\* that fails throws; the elements of an array are validated in order.
ValidateOuterRecipeJson(r) ==
    LET orgs     == r.options.targetOrgs.items
        groups   == r.recipeStepGroups.items
        handlers == r.handlers.items
        orgError ==
            FirstError([i \in 1..Len(orgs) |-> ValidateTargetOrg(orgs[i])])
        groupError ==
            FirstError([i \in 1..Len(groups) |-> ValidateRecipeStepGroup(groups[i])])
    IN  IF TypeOf(r.options) = "undefined" THEN InvalidRecipe
        ELSE IF ~IsArray(r.options.skipGroups) THEN InvalidRecipe
        ELSE IF ~IsArray(r.options.skipActions) THEN InvalidRecipe
        ELSE IF TypeOf(r.options.haltOnError) # "boolean" THEN InvalidRecipe
        ELSE IF ~IsArray(r.options.targetOrgs) \/ Len(orgs) < 1 THEN InvalidRecipe
        ELSE IF orgError # None THEN orgError
        ELSE IF ~IsArray(r.recipeStepGroups) THEN InvalidRecipe
        ELSE IF groupError # None THEN groupError
        ELSE IF ~IsArray(r.handlers) THEN InvalidRecipe
        ELSE FirstError([i \in 1..Len(handlers) |-> ValidateHandler(handlers[i])])

----------------------------------------------------------------------------
(* SpecValidate: the static validators tried on every recipe of JsonRecipes *)

ValidateInit ==
    /\ cfg \in JsonRecipes
    /\ nodes = <<>>
    /\ lastOp = NoOp
    /\ recipe = NoRecipe
    /\ engine = NoEngine
    /\ pc = "json"
    /\ run = RunInit
    /\ command = NoCommand

\* validateOuterRecipe(recipe)
ValidateOuterRecipeCall ==
    /\ pc = "json"
    /\ lastOp' = [NoOp EXCEPT !.op = "validateOuterRecipe",
                              !.exc = ValidateOuterRecipeJson(cfg)]
    /\ pc' = "validated"
    /\ UNCHANGED <<nodes, cfg, recipe, engine, run, command>>

\* validateTargetOrg(targetOrg) for the i-th target org of the recipe
ValidateTargetOrgCall(i) ==
    /\ pc = "json"
    /\ lastOp' = [NoOp EXCEPT !.op = "validateTargetOrg",
                              !.child = i,
                              !.exc = ValidateTargetOrg(cfg.options.targetOrgs.items[i])]
    /\ pc' = "validated"
    /\ UNCHANGED <<nodes, cfg, recipe, engine, run, command>>

ValidateNext ==
    \/ ValidateOuterRecipeCall
    \/ \E i \in 1..Len(cfg.options.targetOrgs.items) : ValidateTargetOrgCall(i)

SpecValidate == ValidateInit /\ [][ValidateNext]_vars

----------------------------------------------------------------------------
(* Claims about the static validators (SpecValidate) *)

NonEmptyString(x) == x.t = "string" /\ x.v # ""

\* The target org validateTargetOrg() was last called on.
ValidatedOrg == cfg.options.targetOrgs.items[lastOp.child]

\* What the claim asks of a target org.
GoodTargetOrg(org) ==
    /\ org.t = "object"
    /\ NonEmptyString(org.orgName)
    /\ NonEmptyString(org.alias)
    /\ NonEmptyString(org.description)
    /\ org.isScratchOrg.t = "boolean"
    /\ org.isScratchOrg = JsBoolean(TRUE) => NonEmptyString(org.scratchDefJson)
    /\ org.isScratchOrg = JsBoolean(FALSE) => NonEmptyString(org.orgReqsJson)

\* C21: validateTargetOrg accepts a target org exactly when orgName, alias
\* and description are non-empty strings, isScratchOrg is a boolean,
\* scratchDefJson is a non-empty string for a scratch org and orgReqsJson is
\* one for a non-scratch org; the other of the two is not required.
C21_ValidateTargetOrg ==
    lastOp.op = "validateTargetOrg" =>
        /\ lastOp.exc = None <=> GoodTargetOrg(ValidatedOrg)
        /\ lastOp.exc # None => lastOp.exc \in {InvalidRecipe, TypeError}

\* A non-scratch org without scratchDefJson was accepted.
C21_Witness ==
    /\ lastOp.op = "validateTargetOrg"
    /\ lastOp.exc = None
    /\ ValidatedOrg.isScratchOrg = JsBoolean(FALSE)
    /\ ValidatedOrg.scratchDefJson = JsUndefined
    /\ NonEmptyString(ValidatedOrg.orgReqsJson)

Items(array) == {array.items[i] : i \in 1..Len(array.items)}

\* What the claim asks of a step group.
GoodRecipeStepGroup(group) ==
    /\ group.t = "object"
    /\ NonEmptyString(group.stepGroupName)
    /\ NonEmptyString(group.alias)
    /\ NonEmptyString(group.description)
    /\ group.recipeSteps.t = "array"

\* What the claim asks of a recipe.
GoodOuterRecipe(r) ==
    /\ r.options.skipGroups.t = "array"
    /\ r.options.skipActions.t = "array"
    /\ r.options.haltOnError.t = "boolean"
    /\ r.options.targetOrgs.t = "array"
    /\ r.options.targetOrgs.items # <<>>
    /\ \A org \in Items(r.options.targetOrgs) : GoodTargetOrg(org)
    /\ r.recipeStepGroups.t = "array"
    /\ \A group \in Items(r.recipeStepGroups) : GoodRecipeStepGroup(group)
    /\ r.handlers.t = "array"

\* C22: validateOuterRecipe accepts a recipe exactly when skipGroups and
\* skipActions are arrays, haltOnError is a boolean, targetOrgs is a non-empty
\* array of valid target orgs, recipeStepGroups is an array of groups with
\* non-empty stepGroupName, alias and description and an array of steps, and
\* handlers is an array; every other recipe fails with InvalidRecipe.
C22_Original ==
    lastOp.op = "validateOuterRecipe" =>
        IF GoodOuterRecipe(cfg)
        THEN lastOp.exc = None
        ELSE lastOp.exc = InvalidRecipe

\* The same statement for the recipes whose arrays hold no null element.
C22_WithoutNullElements ==
    /\ NullTargetOrg \notin Items(cfg.options.targetOrgs)
    /\ NullStepGroup \notin Items(cfg.recipeStepGroups)
    => C22_Original

\* The acceptance half of the statement, whatever the error that is thrown.
C22_AcceptsExactlyGoodRecipes ==
    lastOp.op = "validateOuterRecipe" =>
        (lastOp.exc = None <=> GoodOuterRecipe(cfg))

----------------------------------------------------------------------------
(* Claims about the execution of a step (Spec) *)

\* The step executeStep() was last called for has no registered executor.
LastStepUnknown(r) ==
    /\ r.invoked # <<>>
    /\ Last(r.invoked).action \notin ActionExecutorMap

\* C23: executeStep for a step whose action is not in the engine's action
\* registry fails with UnknownAction naming that action: no action creates a
\* result or calls its executor, and the Error that names the action is what
\* the engine's .catch() wraps and attaches to the ENGINE result.
C23_UnknownAction ==
    [][/\ pc = "listr" /\ pc' = "step" /\ LastStepUnknown(run') =>
            /\ nodes' = nodes
            /\ run'.inflight = 0
       /\ pc = "step" /\ LastStepUnknown(run) =>
            /\ Len(nodes') = Len(nodes) + 1
            /\ Last(nodes').status = "ERROR"
            /\ Last(nodes').errObj = UnknownAction(Last(run.invoked).action)
            /\ Last(nodes'[EngineResultId].children) = Len(nodes')
            /\ Last(run'.settled) = FALSE
      ]_vars

\* A step with an unregistered action was reached and the run is over.
C23_Witness ==
    /\ pc = "done"
    /\ LastStepUnknown(run)
    /\ \E i \in 1..Len(nodes) :
          /\ nodes[i].errObj = "ERROR_UNKNOWN_ACTION: 'unknown-action'"
          /\ \E k \in 1..Len(nodes[EngineResultId].children) :
                nodes[EngineResultId].children[k] = i

----------------------------------------------------------------------------
(* The actions: validateActionOptions() *)

\* The options object of a recipe step, as an action receives it, with the
\* values a step gives to an option.
ActionOptionsInputs ==
    LET JsNull       == [t |-> "null", v |-> ""]
        OptionInputs == {JsUndefined, JsNull, JsString(""), JsString("x"), JsNumber}
    IN  [mdapiSource : OptionInputs, definitionFile : OptionInputs,
         other : {JsUndefined, JsString("x")}]

\* The actions whose classes are in the sources.
ActionClasses == {"deploy-metadata", "configure-admin-user"}

\* The message of the Error thrown for a missing option.
MissingOption(name) == "ERROR_MISSING_OPTION: '" \o name \o "'"

\* A variant of the operator below that looks at the option of the other action.
DeployMetadataValidateOtherOption(actionOptions) ==
    IF TypeOf(actionOptions.definitionFile) = "undefined"
    THEN Raw(MissingOption("definitionFile"))
    ELSE None

\* DeployMetadataAction.validateActionOptions
DeployMetadataValidateActionOptions(actionOptions) ==
    IF TypeOf(actionOptions.mdapiSource) = "undefined"
    THEN Raw(MissingOption("mdapiSource"))
    ELSE None

\* ConfigureAdminUserAction.validateActionOptions
ConfigureAdminUserValidateActionOptions(actionOptions) ==
    IF TypeOf(actionOptions.definitionFile) = "undefined"
    THEN Raw(MissingOption("definitionFile"))
    ELSE None

\* validateActionOptions() of the action registered under actionName.
ValidateActionOptions(actionName, actionOptions) ==
    IF actionName = "deploy-metadata"
    THEN DeployMetadataValidateActionOptions(actionOptions)
    ELSE ConfigureAdminUserValidateActionOptions(actionOptions)

----------------------------------------------------------------------------
(* SpecAction: validateActionOptions() of each action on every options object *)

ActionInit ==
    /\ cfg \in [actionName : ActionClasses, actionOptions : ActionOptionsInputs]
    /\ nodes = <<>>
    /\ lastOp = NoOp
    /\ recipe = NoRecipe
    /\ engine = NoEngine
    /\ pc = "options"
    /\ run = [action         |-> 0,       \* the ACTION result of executeAction
              calls          |-> <<>>,    \* the external calls made, in order
              outcomes       |-> <<>>,    \* how each call that settled did so
              userDefinition |-> "null",  \* detail.userDefinition
              adminUsername  |-> "null",  \* detail.adminUsername
              settled        |-> "pending",
              val            |-> None]    \* what executeAction settled with
    /\ command = NoCommand

ValidateActionOptionsCall ==
    /\ pc = "options"
    /\ lastOp' = [NoOp EXCEPT !.op = "validateActionOptions",
                              !.exc = ValidateActionOptions(cfg.actionName,
                                                            cfg.actionOptions)]
    /\ pc' = "validated"
    /\ UNCHANGED <<nodes, cfg, recipe, engine, run, command>>

\* readConfigFile(rootFolder, filename): path.join() takes strings only; the
\* file is retrieved, a file that does not exist is an Error, and otherwise
\* its content is returned as an object.
ReadConfigFile(filename, file) ==
    IF TypeOf(filename) # "string"
    THEN [exc |-> Raw("TypeError"), val |-> "undefined"]
    ELSE IF file = "unreadable"
    THEN [exc |-> Raw("ConfigFileError"), val |-> "undefined"]
    ELSE IF file = "missing"
    THEN [exc |-> Raw("ERROR_CONFIG_NOT_FOUND"), val |-> "undefined"]
    ELSE [exc |-> None, val |-> "userDefinition"]

\* A variant of the handler below that marks the ACTION result and returns.
ExecuteActionCatchMarksOnly(ns, action, error) ==
    [ns |-> ResultError(ns, action, error.err).ns, exc |-> None]

\* ConfigureAdminUserAction.executeAction, the handler of a failed file read
\* or username lookup: .catch(error => {actionResult.throw(error)}).
ExecuteActionCatch(ns, action, error) == ResultThrow(ns, action, error.err)

\* ConfigureAdminUserAction.executeAction up to its first await, run by the
\* base class once the options are valid: the ACTION result is created and
\* readConfigFile() is called.
ExecuteActionStart ==
    /\ pc = "validated"
    /\ cfg.actionName = "configure-admin-user"
    /\ lastOp.exc = None
    /\ nodes' = CreateResult(nodes, "ACTION", TRUE, TRUE, TRUE)
    /\ run' = [run EXCEPT !.action = Len(nodes) + 1,
                          !.calls = Append(@, "readConfigFile")]
    /\ pc' = "readConfigFile"
    /\ UNCHANGED <<lastOp, cfg, recipe, engine, command>>

\* readConfigFile() settles: what it resolved with (undefined when the handler
\* of its rejection returned) goes to the detail, and getUsernameFromAlias()
\* is called; a handler that throws rejects executeAction.
ReadConfigFileSettles(file) ==
    /\ pc = "readConfigFile"
    /\ LET r == ReadConfigFile(cfg.actionOptions.definitionFile, file)
           h == IF r.exc = None
                THEN [ns |-> nodes, exc |-> None]
                ELSE ExecuteActionCatch(nodes, run.action, r.exc)
           o == IF r.exc = None THEN "resolved" ELSE "rejected"
       IN  /\ nodes' = h.ns
           /\ IF h.exc = None
              THEN /\ run' = [run EXCEPT !.outcomes = Append(@, o),
                                         !.userDefinition = r.val,
                                         !.calls = Append(@, "getUsernameFromAlias")]
                   /\ pc' = "getUsernameFromAlias"
              ELSE /\ run' = [run EXCEPT !.outcomes = Append(@, o),
                                         !.settled = "rejected", !.val = h.exc]
                   /\ pc' = "settled"
    /\ UNCHANGED <<lastOp, cfg, recipe, engine, command>>

\* getUsernameFromAlias() settles, with the username of the alias or with an
\* Error: the username goes to the detail and configureUser() is called; a
\* handler that throws rejects executeAction.
GetUsernameFromAliasSettles(u) ==
    /\ pc = "getUsernameFromAlias"
    /\ LET h == IF u.settled = "resolved"
                THEN [ns |-> nodes, exc |-> None]
                ELSE ExecuteActionCatch(nodes, run.action, Raw(u.val))
           o == u.settled
       IN  /\ nodes' = h.ns
           /\ IF h.exc = None
              THEN /\ run' = [run EXCEPT !.outcomes = Append(@, o),
                                         !.adminUsername =
                                            IF u.settled = "resolved" THEN u.val
                                            ELSE "undefined",
                                         !.calls = Append(@, "configureUser")]
                   /\ pc' = "configureUser"
              ELSE /\ run' = [run EXCEPT !.outcomes = Append(@, o),
                                         !.settled = "rejected", !.val = h.exc]
                   /\ pc' = "settled"
    /\ UNCHANGED <<lastOp, cfg, recipe, engine, command>>

\* configureUser() settles: .then(handleResolvedExecutor)
\* .catch(handleRejectedExecutor). The two handlers of the base class attach
\* the EXECUTOR result to the ACTION result as DeployMetadataAction does in
\* its own .then() and .catch().
ConfigureUserSettles(o) ==
    /\ pc = "configureUser"
    /\ LET a == DeployMetadataSettle(nodes, run.action, o)
       IN  /\ nodes' = a.ns
           /\ run' = [run EXCEPT !.outcomes = Append(@, IF o.kind = "resolve"
                                                        THEN "resolved"
                                                        ELSE "rejected"),
                                 !.settled = a.settled, !.val = a.val]
    /\ pc' = "settled"
    /\ UNCHANGED <<lastOp, cfg, recipe, engine, command>>

ActionNext ==
    \/ ValidateActionOptionsCall
    \/ ExecuteActionStart
    \/ \E file \in {"unreadable", "missing", "present"} : ReadConfigFileSettles(file)
    \/ \E u \in [settled : {"resolved"}, val : {"admin@a.org", "admin@b.org"}]
                 \cup [settled : {"rejected"}, val : {"AliasError"}] :
          GetUsernameFromAliasSettles(u)
    \/ \E o \in ExecutorOutcomes : ConfigureUserSettles(o)

SpecAction == ActionInit /\ [][ActionNext]_vars

----------------------------------------------------------------------------
(* Claims about the actions (SpecAction) *)

----------------------------------------------------------------------------
(* Claims about wrapRejectedPromise and the shape of the result tree (Spec) *)

ResultTypes == {"COMMAND", "RECIPE", "ENGINE", "ACTION", "EXECUTOR", "UNKNOWN"}

\* What a promise can reject with: a result node that exists, or a plain Error.
RejectedValues ==
    {NodeVal(i) : i \in 1..Len(nodes)}
    \cup {Raw(error) : error \in {"ExecutorError", "TypeError"}}

\* C25: wrapRejectedPromise(value, defaultName, defaultType) returns value
\* unchanged when it is a result node, and otherwise a new node of type
\* defaultType in status ERROR whose errObj is value; so what it returns is
\* always a result node, and wrapping that again returns the same node.
C25_WrapRejectedPromise ==
    \A value \in RejectedValues, defaultType \in ResultTypes :
        LET w == WrapRejectedPromise(nodes, value, defaultType)
        IN  /\ value.kind = "node" => w.ns = nodes /\ w.id = value.id
            /\ value.kind # "node" =>
                  /\ w.id = Len(nodes) + 1
                  /\ Len(w.ns) = Len(nodes) + 1
                  /\ SubSeq(w.ns, 1, Len(nodes)) = nodes
                  /\ w.ns[w.id].type = defaultType
                  /\ w.ns[w.id].status = "ERROR"
                  /\ w.ns[w.id].errObj = value.err
                  /\ w.ns[w.id].children = <<>>
            /\ w.id \in 1..Len(w.ns)
            /\ \A otherType \in ResultTypes :
                  WrapRejectedPromise(w.ns, NodeVal(w.id), otherType) = w

\* An executor rejected with a plain Error, and the EXECUTOR result wrapped
\* around it is the child of the ACTION result.
C25_Witness ==
    \E a, x \in 1..Len(nodes) :
        /\ nodes[a].type = "ACTION"
        /\ nodes[x].type = "EXECUTOR"
        /\ nodes[x].status = "ERROR"
        /\ nodes[x].errObj = "ExecutorError"
        /\ nodes[a].children = <<x>>
        /\ pc = "done"

\* The depth of a result type in the nesting COMMAND, RECIPE, ENGINE, ACTION,
\* EXECUTOR; UNKNOWN has no place in it.
TypeLevel(type) ==
    CASE type = "COMMAND" -> 0
      [] type = "RECIPE" -> 1
      [] type = "ENGINE" -> 2
      [] type = "ACTION" -> 3
      [] type = "EXECUTOR" -> 4
      [] OTHER -> 9

\* The child's type is the parent's or the one below it.
NestedUnder(parentType, childType) ==
    /\ TypeLevel(parentType) <= 4
    /\ TypeLevel(childType) <= 4
    /\ TypeLevel(childType) - TypeLevel(parentType) \in {0, 1}

\* C26: in every result tree, each child's type is its parent's type or the
\* type one level deeper in COMMAND, RECIPE, ENGINE, ACTION, EXECUTOR, for the
\* children attached by the command, recipe, engine and action layers, those
\* made by wrapRejectedPromise with the layer's default type included.
C26_Original ==
    \A p \in 1..Len(nodes) :
        \A k \in 1..Len(nodes[p].children) :
            NestedUnder(nodes[p].type, nodes[nodes[p].children[k]].type)

----------------------------------------------------------------------------
(* SfdxFalconCommand: the command layer *)

CommandResultId == 1

\* What sfdxFalconCommandInit() reads: which of the three directories, if
\* any, fails validateLocalPath(), and the two debug flags.
CommandInputs ==
    [invalidDirectory   : {"none", "Output ", "Project ", "Target "},
     falcondebugerror   : BOOLEAN,
     falcondebugsuccess : BOOLEAN]

\* sfdxFalconCommandInit(): the COMMAND result (started, no bubbling) and its
\* detail with commandExitCode 0; then an invalid directory throws.
SfdxFalconCommandInit(ns, cmd, c) ==
    [ns      |-> CreateResult(ns, "COMMAND", TRUE, FALSE, FALSE),
     command |-> [cmd EXCEPT !.constructed = TRUE, !.commandExitCode = 0,
                             !.thrown = IF c.invalidDirectory # "none"
                                        THEN Raw("errInvalidDirectory")
                                        ELSE None]]

\* A variant of onError() that leaves the exit code as it is.
CommandOnErrorKeepsExitCode(ns, cmd, rejectedResult) ==
    LET w == WrapRejectedPromise(ns, rejectedResult, "UNKNOWN")
        a == AddChild(w.ns, CommandResultId, w.id)
        e == ResultError(a.ns, CommandResultId, a.ns[w.id].errObj)
    IN  [ns      |-> e.ns,
         command |-> [cmd EXCEPT !.onErrorTaken = TRUE,
                                 !.terminatedWith = NodeVal(w.id)]]

\* SfdxFalconCommand.onError(rejectedResult): wrap what was rejected, set the
\* exit code, attach the wrapped result, mark the COMMAND result ERROR, then
\* terminate with the wrapped result; a statement that throws ends it.
CommandOnError(ns, cmd, rejectedResult) ==
    LET w    == WrapRejectedPromise(ns, rejectedResult, "UNKNOWN")
        cmd1 == [cmd EXCEPT !.commandExitCode = 1, !.onErrorTaken = TRUE]
        a    == AddChild(w.ns, CommandResultId, w.id)
    IN  IF a.exc # None
        THEN [ns |-> a.ns, command |-> [cmd1 EXCEPT !.thrown = a.exc]]
        ELSE LET e == ResultError(a.ns, CommandResultId, a.ns[w.id].errObj)
             IN  IF e.exc # None
                 THEN [ns |-> e.ns, command |-> [cmd1 EXCEPT !.thrown = e.exc]]
                 ELSE [ns      |-> e.ns,
                       command |-> [cmd1 EXCEPT !.terminatedWith = NodeVal(w.id)]]

\* SfdxFalconCommand.onSuccess(sfdxFalconResult): attach the result, mark the
\* COMMAND result SUCCESS; exc is what it throws.
CommandOnSuccess(ns, cmd, sfdxFalconResult) ==
    LET cmd1 == [cmd EXCEPT !.onSuccessTaken = TRUE]
        a    == AddChild(ns, CommandResultId, sfdxFalconResult.id)
    IN  IF a.exc # None
        THEN [ns |-> a.ns, command |-> cmd1, exc |-> a.exc]
        ELSE LET f == ResultSuccess(a.ns, CommandResultId)
             IN  [ns |-> f.ns, command |-> cmd1, exc |-> f.exc]

\* The RECIPE result a command's promise settles with.
SettledResult(status, errObj) ==
    [NewResult("RECIPE", TRUE, FALSE, TRUE) EXCEPT !.status = status, !.errObj = errObj]

\* The plain Errors a command's promise rejects with.
PlainErrors == {"Error", "TypeError"}

----------------------------------------------------------------------------
(* SpecCommand: run() of a command: init, then .then(onSuccess).catch(onError) *)

CommandInit ==
    /\ cfg \in CommandInputs
    /\ nodes = <<>>
    /\ lastOp = NoOp
    /\ recipe = NoRecipe
    /\ engine = NoEngine
    /\ pc = "start"
    /\ run = RunInit
    /\ command = NoCommand

\* run(), its first statement: sfdxFalconCommandInit(); when that throws,
\* run() rejects before its promise chain is built.
CommandRunInit ==
    /\ pc = "start"
    /\ LET i == SfdxFalconCommandInit(nodes, command, cfg)
       IN  /\ nodes' = i.ns
           /\ command' = i.command
           /\ pc' = IF i.command.thrown # None THEN "done" ELSE "running"
    /\ UNCHANGED <<lastOp, cfg, recipe, engine, run>>

\* The command's promise resolves with a result: onSuccess() runs, and what
\* it throws goes to onError().
CommandResolves(status, errObj) ==
    /\ pc = "running"
    /\ LET ns1 == Append(nodes, SettledResult(status, errObj))
           ok  == CommandOnSuccess(ns1, command, NodeVal(Len(nodes) + 1))
           err == CommandOnError(ok.ns, ok.command, ok.exc)
       IN  IF ok.exc = None
           THEN nodes' = ok.ns /\ command' = ok.command
           ELSE nodes' = err.ns /\ command' = err.command
    /\ pc' = "done"
    /\ UNCHANGED <<lastOp, cfg, recipe, engine, run>>

\* The command's promise rejects with a result: onError() runs.
CommandRejectsWithResult(status, errObj) ==
    /\ pc = "running"
    /\ LET ns1 == Append(nodes, SettledResult(status, errObj))
           err == CommandOnError(ns1, command, NodeVal(Len(nodes) + 1))
       IN  nodes' = err.ns /\ command' = err.command
    /\ pc' = "done"
    /\ UNCHANGED <<lastOp, cfg, recipe, engine, run>>

\* The command's promise rejects with a plain Error: onError() runs.
CommandRejectsWithError(error) ==
    /\ pc = "running"
    /\ LET err == CommandOnError(nodes, command, Raw(error))
       IN  nodes' = err.ns /\ command' = err.command
    /\ pc' = "done"
    /\ UNCHANGED <<lastOp, cfg, recipe, engine, run>>

CommandNext ==
    \/ CommandRunInit
    \/ \E status \in Statuses, errObj \in {NoErr, "ExecutorError"} :
          CommandResolves(status, errObj)
    \/ \E status \in Statuses, errObj \in {NoErr, "ExecutorError"} :
          CommandRejectsWithResult(status, errObj)
    \/ \E error \in PlainErrors : CommandRejectsWithError(error)

SpecCommand == CommandInit /\ [][CommandNext]_vars

----------------------------------------------------------------------------
(* Claims about the command layer (SpecCommand) *)

\* The COMMAND result holds a plain Error wrapped by onError().
C26_CommandWrappedAnError ==
    /\ pc = "done"
    /\ command.onErrorTaken
    /\ Len(nodes) = 2
    /\ nodes[CommandResultId].children = <<2>>
    /\ nodes[2].errObj \in PlainErrors

\* The nesting holds for every result the command attaches as it is.
C26_AttachedAsItIs ==
    ~C26_CommandWrappedAnError => C26_Original

\* The state of a command whose run() is over.
C27_AfterRun ==
    pc = "done" =>
        /\ command.onErrorTaken =>
              /\ Len(nodes[CommandResultId].children) = 1
              /\ nodes[CommandResultId].children[1] \in 2..Len(nodes)
              /\ nodes[nodes[CommandResultId].children[1]].type \in ResultTypes
              /\ nodes[nodes[CommandResultId].children[1]].status \in Statuses
              /\ nodes[CommandResultId].status = "ERROR"
              /\ command.commandExitCode = 1
              /\ command.thrown = None
              /\ command.terminatedWith = NodeVal(nodes[CommandResultId].children[1])
        /\ command.commandExitCode = 0 <=> ~command.onErrorTaken
        /\ command.commandExitCode \in {0, 1}

\* C27: whatever reaches the command's onError(), a result node or a plain
\* Error, the COMMAND result gains exactly one result node as child and ends
\* in status ERROR through one terminal transition (a finished COMMAND result
\* is not finished again), and commandExitCode is 1; commandExitCode is 0
\* exactly when onError() was not taken.
C27_CommandOnError ==
    [][/\ C27_AfterRun'
       /\ command.constructed /\ IsTerminal(nodes[CommandResultId].status) =>
             nodes'[CommandResultId] = nodes[CommandResultId]
       /\ command.commandExitCode = 0 <=> ~command.onErrorTaken
      ]_vars

\* onError() was taken for a plain Error.
C27_Witness ==
    /\ pc = "done"
    /\ command.onErrorTaken
    /\ command.commandExitCode = 1
    /\ nodes[CommandResultId].status = "ERROR"
    /\ nodes[nodes[CommandResultId].children[1]].type = "UNKNOWN"
    /\ nodes[nodes[CommandResultId].children[1]].errObj = "TypeError"

\* onError() was taken for a RECIPE result that was rejected.
C27_WitnessResult ==
    /\ pc = "done"
    /\ command.onErrorTaken
    /\ nodes[nodes[CommandResultId].children[1]].type = "RECIPE"

----------------------------------------------------------------------------
(* Claims about failing steps (Spec) *)

\* The bubbling a parent's own flags ask for, given the status of a child.
Bubbles(parent, childStatus) ==
    \/ childStatus = "ERROR" /\ parent.bubbleError
    \/ childStatus = "FAILURE" /\ parent.bubbleFailure

\* C28: a step whose action fails (executeStep's promise rejects) is recorded
\* as a child of the ENGINE result whether or not the run then aborts, and
\* the run aborts exactly when the ENGINE result's own bubbleError /
\* bubbleFailure flags make the recorded child's status bubble.
C28_FailuresRecorded ==
    [][pc = "step" /\ Len(run'.settled) = Len(run.settled) + 1
         /\ Last(run'.settled) = FALSE =>
            LET before == nodes[EngineResultId].children
                after  == nodes'[EngineResultId].children
            IN  /\ Len(after) = Len(before) + 1
                /\ SubSeq(after, 1, Len(before)) = before
                /\ nodes'[Last(after)].type = "ACTION"
                /\ nodes'[Last(after)].status \in {"ERROR", "FAILURE"}
                /\ pc' = "rejected" <=>
                      Bubbles(nodes[EngineResultId], nodes'[Last(after)].status)
                /\ pc' \in {"rejected", "listr"}
      ]_vars

\* A step's action failed, it is a child of the ENGINE result, and the run
\* was aborted with later steps left.
C28_Witness ==
    /\ pc = "done"
    /\ run.settled # <<>>
    /\ Last(run.settled) = FALSE
    /\ nodes[EngineResultId].children # <<>>
    /\ nodes[Last(nodes[EngineResultId].children)].status = "FAILURE"
    /\ run.si < Len(run.sub)


\* ---------------------------------------------------------------------------
\* AppxRecipeEngine.compile(), one awaited step at a time
\* ---------------------------------------------------------------------------

\* The recipes compile() is followed on: APPX_DEMO recipes without pre- or
\* post-build groups and without skipped groups.
CompileConfigs ==
    {c \in Configs :
        /\ c.recipeType = "APPX_DEMO"
        /\ c.preBuildStepGroups = <<>>
        /\ c.postBuildStepGroups = <<>>
        /\ c.skipGroups = {}}

\* A constructed engine, with its ENGINE result, about to compile a recipe
\* that is validated or is not.
CompileInit ==
    /\ cfg \in CompileConfigs
    /\ nodes = CreateResult(<<>>, "ENGINE", FALSE, TRUE, TRUE)
    /\ lastOp = NoOp
    /\ \E v \in BOOLEAN : recipe = [NewRecipe EXCEPT !.validated = v]
    /\ engine = NewEngine
    /\ pc = "compile"
    /\ run = RunInit
    /\ command = NoCommand

\* compile(), its first statement: the recipe must be validated.
EngineCompileEnter ==
    /\ pc = "compile"
    /\ IF recipe.validated # TRUE
       THEN /\ recipe' = [recipe EXCEPT !.error = InvalidRecipe]
            /\ pc' = "compileFailed"
       ELSE /\ pc' = "hooks"
            /\ UNCHANGED recipe
    /\ UNCHANGED <<nodes, lastOp, cfg, engine, run, command>>

\* compile() awaits its next hook: the hook throws, which ends compile(), or
\* completes and leaves its outcome.
EngineHook ==
    /\ pc = "hooks"
    /\ Len(engine.steps) < Len(EngineHooks)
    /\ LET name == EngineHooks[Len(engine.steps) + 1]
       IN  \E out \in HookOutcomes(name) :
              LET thrown == HookThrows(name, engine, out)
              IN  IF thrown # None
                  THEN /\ engine' = [engine EXCEPT !.steps = Append(@, name)]
                       /\ recipe' = [recipe EXCEPT !.error = thrown]
                       /\ pc' = "compileFailed"
                  ELSE /\ engine' = RunHook(name, engine, cfg, out)
                       /\ UNCHANGED <<recipe, pc>>
    /\ UNCHANGED <<nodes, lastOp, cfg, run, command>>

\* compile() calls validateEngine() once the hooks are through.
EngineValidateEngine ==
    /\ pc = "hooks"
    /\ Len(engine.steps) = Len(EngineHooks)
    /\ LET v == ValidateEngineStep(engine)
       IN  /\ engine' = v.engine
           /\ IF v.exc # None
              THEN /\ recipe' = [recipe EXCEPT !.error = v.exc]
                   /\ pc' = "compileFailed"
              ELSE /\ pc' = "validated"
                   /\ UNCHANGED recipe
    /\ UNCHANGED <<nodes, lastOp, cfg, run, command>>

\* compile() calls compileAllTasks() once validateEngine() has returned.
EngineCompileAllTasks ==
    /\ pc = "validated"
    /\ LET t == CompileAllTasksStep(engine, cfg)
       IN  /\ engine' = t.engine
           /\ IF t.exc # None
              THEN /\ recipe' = [recipe EXCEPT !.error = t.exc]
                   /\ pc' = "compileFailed"
              ELSE /\ pc' = "compiled"
                   /\ UNCHANGED recipe
    /\ UNCHANGED <<nodes, lastOp, cfg, run, command>>

CompileNext ==
    \/ EngineCompileEnter
    \/ EngineHook
    \/ EngineValidateEngine
    \/ EngineCompileAllTasks

SpecCompile == CompileInit /\ [][CompileNext]_vars

\* The steps of compile() in the order the claim C29 gives them.
C29_Order ==
    <<"initializeRecipeEngineContext", "initializeTargetOrg",
      "initializePreBuildStepGroups", "initializePostBuildStepGroups",
      "initializeSkipActions", "initializeSkipGroups", "initializeActionMap",
      "initializeEngineResultDetail", "validateEngine", "compileAllTasks">>

\* The errors of a hook that fails.
C29_HookErrors == {Raw("HookError"), TypeError}

\* C29: compile() runs its hooks in the order context, target org, pre-build
\* groups, post-build groups, skip-actions, skip-groups, action registry,
\* engine result detail; a step starts only when all the steps before it have
\* run, one step at a time; validateEngine comes after all eight hooks; and
\* once a hook has failed no later hook, no validation and no task compilation
\* runs: the engine stays as the failing hook left it.
C29_HooksInOrder ==
    /\ [](/\ Len(engine.steps) <= Len(C29_Order)
          /\ engine.steps = SubSeq(C29_Order, 1, Len(engine.steps))
          /\ (recipe.error \in C29_HookErrors =>
                 /\ Len(engine.steps) \in 1..8
                 /\ ~engine.initialized
                 /\ ~engine.tasksSet))
    /\ [][/\ engine'.steps # engine.steps =>
                Len(engine'.steps) = Len(engine.steps) + 1
          /\ (recipe.error \in C29_HookErrors => engine' = engine)]_vars

\* The third hook has thrown after the first two completed.
C29_Witness ==
    /\ pc = "compileFailed"
    /\ recipe.error = Raw("HookError")
    /\ engine.steps = <<"initializeRecipeEngineContext", "initializeTargetOrg",
                        "initializePreBuildStepGroups">>

\* C30: the plan is built only on an initialized engine, and the engine is
\* initialized only when every check of validateEngine holds: the action
\* registry is filled, the pre- and post-build groups are arrays, the target
\* org has a non-empty alias, skipActions and skipGroups are arrays; when
\* compile() has thrown the engine is not initialized and has no plan.
C30_InitializedOnlyWhenValid ==
    /\ engine.tasksSet => engine.initialized
    /\ engine.initialized =>
          /\ engine.actionExecutorMap = "filled"
          /\ engine.preBuildIsArray
          /\ engine.postBuildIsArray
          /\ engine.targetOrgAlias # ""
          /\ engine.skipActionsIsArray
          /\ engine.skipGroupsIsArray
    /\ pc = "compileFailed" =>
          /\ recipe.error # None
          /\ ~engine.initialized
          /\ ~engine.tasksSet

\* validateEngine() has thrown on an engine whose hooks all completed.
C30_Witness ==
    /\ pc = "compileFailed"
    /\ Len(engine.steps) = 9
    /\ recipe.error = Raw("ERROR_INVALID_ENGINE_CONTEXT")
    /\ engine.targetOrgAlias = ""
    /\ ~engine.initialized
    /\ ~engine.tasksSet

\* compile() has come through: the engine is initialized and has its plan.
C30_WitnessCompiled ==
    /\ pc = "compiled"
    /\ engine.initialized
    /\ engine.tasksSet


----------------------------------------------------------------------------
(* The execute run as a whole *)

\* C31: options.haltOnError has no effect at run time. Every step of a run is
\* the step the same handlers take on an engine context that differs in
\* haltOnError only: the same plan is compiled, execute() starts alike, each
\* parent task yields the same sub tasks in the same order, and the ENGINE
\* and RECIPE results settle with the same statuses, children and outcomes;
\* so two runs of one recipe with the same action outcomes go through the
\* same steps and end alike.
C31_HaltOnErrorNoEffect ==
    /\ [](\A h \in BOOLEAN :
            (pc = "compiled" /\ engine.tasksSet) =>
                LET c == EngineCompile(recipe, [cfg EXCEPT !.haltOnError = h],
                                       engine.targetOrgAlias)
                IN  /\ c.exc = None
                    /\ c.engine = [engine EXCEPT !.haltOnError = h])
    /\ [][\A h \in BOOLEAN :
            LET ctx == [engine EXCEPT !.haltOnError = h]
            IN  /\ (pc # "listr" /\ pc' = "listr") => EngineExecuteStart(ctx) = None
                /\ run'.gi # run.gi =>
                      LET c == CompileSubTasks(ctx, engine.listrTasks[run'.gi])
                      IN  IF c.exc = None
                          THEN run'.sub = c.tasks /\ run'.err = None
                          ELSE run'.err = c.exc
                /\ (pc \in {"listr", "rejected"} /\ pc' = "done") =>
                      LET e == EngineExecuteSettle(
                                   nodes, IF pc = "listr" THEN None ELSE run.err, ctx)
                          r == RecipeExecuteSettle(e.ns, e)
                      IN  /\ nodes' = r.ns
                          /\ run'.engineOutcome = [settled |-> e.settled, val |-> e.val]
                          /\ run'.outcome = [settled |-> r.settled, val |-> r.val]
                          /\ run'.invoked = run.invoked]_vars

\* A recipe with haltOnError true ran its plan to the end: onSuccess() was
\* called and the ENGINE result is in SUCCESS.
C31_Witness ==
    /\ pc = "done"
    /\ engine.haltOnError
    /\ Len(run.invoked) >= 1
    /\ run.engineOutcome.settled = "resolved"
    /\ nodes[EngineResultId].status = "SUCCESS"

\* A recipe with haltOnError false had a step fail and the run was abandoned
\* all the same.
C31_WitnessNotHalting ==
    /\ pc = "done"
    /\ ~engine.haltOnError
    /\ run.err # None
    /\ run.si < Len(run.sub)


\* The members of the engine context that the claim C32 names.
C32_Context(e) ==
    <<e.skipActions, e.skipGroups, e.targetOrgAlias, e.haltOnError, e.initialized>>

\* C32: once the engine is initialized no step of the run changes
\* skipActions, skipGroups, the target org, haltOnError or initialized in the
\* engine context, and the action context built for every step holds the
\* values of the engine context, the same for every step as for the first.
C32_ContextReadOnly ==
    /\ [](\A i \in 1..Len(run.contexts) :
            /\ run.contexts[i] = run.contexts[1]
            /\ C32_Context(run.contexts[i]) = C32_Context(engine))
    /\ [][engine.initialized => C32_Context(engine') = C32_Context(engine)]_vars

\* Two steps were executed on an engine that skips an action, and the second
\* one has been handed its context.
C32_Witness ==
    /\ Len(run.contexts) = 2
    /\ engine.initialized
    /\ engine.skipActions # {}
    /\ pc = "step"


\* The nodes found below node i in at most k steps along children lists.
RECURSIVE C33_Below(_, _)
C33_Below(i, k) ==
    IF k = 0 THEN {}
    ELSE LET kids == {nodes[i].children[j] : j \in DOMAIN nodes[i].children}
         IN  kids \cup UNION {C33_Below(c, k - 1) : c \in kids}

\* Children lists only grow, at the end.
C33_AppendOnly ==
    \A i \in DOMAIN nodes :
        /\ i \in DOMAIN nodes'
        /\ Len(nodes'[i].children) >= Len(nodes[i].children)
        /\ SubSeq(nodes'[i].children, 1, Len(nodes[i].children)) = nodes[i].children

\* A node has at most one parent and stands at most once in a children list.
C33_OwnedOnce ==
    \A c \in DOMAIN nodes :
        Cardinality(UNION {{<<p, j>> : j \in {x \in DOMAIN nodes[p].children :
                                                nodes[p].children[x] = c}} :
                           p \in DOMAIN nodes}) <= 1

\* No node is its own child or descendant.
C33_Acyclic == \A i \in DOMAIN nodes : i \notin C33_Below(i, Len(nodes))

\* C33: over any execution a node's children only grow by appending at the
\* end, a node is a child of at most one parent and occurs at most once in
\* its children list, and no node is its own child or descendant.
C33_Original ==
    /\ [](C33_OwnedOnce /\ C33_Acyclic)
    /\ [][C33_AppendOnly]_vars

\* What the runs keep of C33: children lists only grow at the end, and a
\* node that is not attached to itself has one parent, one place in its
\* parent's list and is not below itself.
C33_AppendOnlyHolds ==
    /\ [][C33_AppendOnly]_vars
    /\ [](\A c \in DOMAIN nodes :
            c \notin {nodes[c].children[j] : j \in DOMAIN nodes[c].children} =>
                /\ Cardinality(UNION {{<<p, j>> : j \in {x \in DOMAIN nodes[p].children :
                                                          nodes[p].children[x] = c}} :
                                      p \in DOMAIN nodes}) <= 1
                /\ c \notin C33_Below(c, Len(nodes)))

\* C34: within one run the steps handed to executeStep() are a prefix of the
\* compiled plan, each of them once; whenever no step is in flight, and so
\* when the run has settled, the ENGINE result has one child per such step,
\* in the order of the steps: an ACTION result that is the step's own result
\* when its action resolved, and else what the step was rejected with (the
\* step's result, or an ACTION result wrapped around the error).
C34_OneChildPerInvokedStep ==
    /\ Len(run.invoked) <= Len(ExpectedPlanSteps)
    /\ run.invoked = SubSeq(ExpectedPlanSteps, 1, Len(run.invoked))
    /\ \A k \in 1..Len(run.invoked) : Occurrences(run.invoked, run.invoked[k]) = 1
    /\ (run.started /\ pc \in {"listr", "rejected", "done"}) =>
          LET ch == nodes[EngineResultId].children
          IN  /\ Len(ch) = Len(run.invoked)
              /\ Len(run.settled) = Len(run.invoked)
              /\ \A k \in 1..Len(ch) :
                    /\ nodes[ch[k]].type = "ACTION"
                    /\ run.settled[k] => ch[k] = run.actionResults[k]
                    /\ ch[k] >= run.actionResults[k]
                    /\ \A j \in 1..(k - 1) : ch[j] < ch[k]

\* The run has settled after the second step of a longer plan failed: the
\* ENGINE result has the two children.
C34_Witness ==
    /\ pc = "done"
    /\ Len(ExpectedPlanSteps) >= 3
    /\ Len(run.invoked) = 2
    /\ run.settled = <<TRUE, FALSE>>
    /\ Len(nodes[EngineResultId].children) = 2

\* C35: a RECIPE or ENGINE result in SUCCESS has no child in ERROR or
\* FAILURE, and a RECIPE result in SUCCESS has exactly one child, an ENGINE
\* result in SUCCESS.
C35_SuccessHasNoFailedChild ==
    \A i \in DOMAIN nodes :
        (nodes[i].type \in {"RECIPE", "ENGINE"} /\ nodes[i].status = "SUCCESS") =>
            /\ \A j \in DOMAIN nodes[i].children :
                  nodes[nodes[i].children[j]].status \notin {"ERROR", "FAILURE"}
            /\ nodes[i].type = "RECIPE" =>
                  /\ Len(nodes[i].children) = 1
                  /\ nodes[nodes[i].children[1]].type = "ENGINE"
                  /\ nodes[nodes[i].children[1]].status = "SUCCESS"

\* The RECIPE result is in SUCCESS over an ENGINE result that has the results
\* of two steps as its children.
C35_Witness ==
    /\ pc = "done"
    /\ nodes[RecipeResultId].status = "SUCCESS"
    /\ nodes[RecipeResultId].children = <<EngineResultId>>
    /\ Len(nodes[EngineResultId].children) = 2

\* Whether the result has left INITIALIZED and RUNNING.
C36_Finished(i) == i \in DOMAIN nodes /\ IsTerminal(nodes[i].status)

\* Once execute() has settled on a compiled plan, neither the RECIPE result
\* nor the ENGINE result is in INITIALIZED or RUNNING; the task of a step
\* signals at most once, and has signalled when no step is in flight.
C36_SettledResults ==
    /\ Len(run.settled) <= Len(run.invoked)
    /\ pc \in {"listr", "rejected", "done"} => Len(run.settled) = Len(run.invoked)
    /\ (pc = "done" /\ recipe.compiled /\ engine.tasksSet /\ run.started) =>
          C36_Finished(RecipeResultId) /\ C36_Finished(EngineResultId)

\* C36: when every invoked action settles, the task of every started step
\* signals completion or error, once; execute() on a compiled plan settles;
\* and once it has settled neither the RECIPE result nor the ENGINE result is
\* in INITIALIZED or RUNNING.
C36_ExecuteSettles ==
    /\ (pc = "step") ~> (pc \in {"listr", "rejected"})
    /\ (pc = "compiled") ~> (pc = "done")
    /\ []C36_SettledResults

\* execute() has settled on a plan whose step failed: the RECIPE result is in
\* ERROR and the ENGINE result is final.
C36_Witness ==
    /\ pc = "done"
    /\ recipe.compiled
    /\ engine.tasksSet
    /\ Len(run.settled) = 1
    /\ run.outcome.settled = "rejected"
    /\ nodes[RecipeResultId].status = "ERROR"
    /\ IsTerminal(nodes[EngineResultId].status)


----------------------------------------------------------------------------
(* A rejected executor, from the action up to the command *)

\* The results of a recipe as a command holds them: the COMMAND result is
\* created first, by sfdxFalconCommandInit(), the recipe's results after it.
C37_CommandStore(ns) ==
    SfdxFalconCommandInit(<<>>, NoCommand,
                          [invalidDirectory |-> "none", falcondebugerror |-> FALSE,
                           falcondebugsuccess |-> FALSE]).ns
    \o [i \in 1..Len(ns) |->
          [ns[i] EXCEPT !.children =
              [k \in 1..Len(ns[i].children) |-> ns[i].children[k] + 1]]]

\* What the recipe's execute() rejected with, as the command receives it.
C37_CommandValue(value) ==
    IF value.kind = "node" THEN NodeVal(value.id + 1) ELSE value

\* With ACTION result `action` and the Listr run rejected with `listr`: the
\* ACTION result is in ERROR with an EXECUTOR result as its last child, the
\* ENGINE result in ERROR with the ACTION result as its last child, the RECIPE
\* result in ERROR with the ENGINE result as its last child, and onError() of
\* the command, handed the RECIPE result, marks the COMMAND result ERROR.
C37_Propagated(ns, action, listr) ==
    LET e == EngineExecuteSettle(ns, listr, engine)
        r == RecipeExecuteSettle(e.ns, e)
        c == CommandOnError(C37_CommandStore(r.ns),
                            [NoCommand EXCEPT !.constructed = TRUE],
                            C37_CommandValue(r.val))
    IN  /\ ns[action].status = "ERROR"
        /\ ns[action].children # <<>>
        /\ ns[Last(ns[action].children)].type = "EXECUTOR"
        /\ listr = NodeVal(EngineResultId)
        /\ r.ns[EngineResultId].status = "ERROR"
        /\ r.ns[EngineResultId].children # <<>>
        /\ Last(r.ns[EngineResultId].children) = action
        /\ r.ns[RecipeResultId].status = "ERROR"
        /\ r.ns[RecipeResultId].children # <<>>
        /\ Last(r.ns[RecipeResultId].children) = EngineResultId
        /\ r.settled = "rejected"
        /\ r.val = NodeVal(RecipeResultId)
        /\ c.command.onErrorTaken
        /\ c.ns[CommandResultId].status = "ERROR"
        /\ Last(c.ns[CommandResultId].children) = RecipeResultId + 1

\* C37 as stated: whenever the executor called by a step's action rejects,
\* the rejected value becomes a child of the ACTION result, the ACTION, ENGINE
\* and RECIPE results end in ERROR, each with the failing result of the level
\* below as its last child, and the command's onError() marks the COMMAND
\* result ERROR.
C37_Original ==
    [][\A o \in ExecutorOutcomes :
          (o.kind = "reject" /\ StepSettle(o)) =>
              /\ pc' = "rejected"
              /\ C37_Propagated(nodes', run.inflight, run'.err)]_vars

\* The same for an executor that rejects with a plain Error or with a result
\* in ERROR status.
C37_RejectedErrorPropagates ==
    [][\A o \in ExecutorOutcomes :
          (o.kind = "reject" /\ o.status = "ERROR" /\ StepSettle(o)) =>
              /\ pc' = "rejected"
              /\ C37_Propagated(nodes', run.inflight, run'.err)]_vars

\* The executor rejected with a result in FAILURE status: execute() has
\* settled with the ACTION and ENGINE results in FAILURE.
C37_FailureReached ==
    /\ pc = "done"
    /\ Len(run.actionResults) = 1
    /\ run.actionResults[1] # 0
    /\ nodes[run.actionResults[1]].status = "FAILURE"
    /\ nodes[run.actionResults[1]].children # <<run.actionResults[1]>>
    /\ Len(nodes[run.actionResults[1]].children) = 1
    /\ nodes[EngineResultId].status = "FAILURE"


----------------------------------------------------------------------------
(* The configure-admin-user action (SpecAction) *)

\* C38: configure-admin-user makes its external calls in the order
\* readConfigFile, getUsernameFromAlias, configureUser, each after the one
\* before it resolved; when the file read or the username lookup fails, the
\* ACTION result is in ERROR, the action has rejected (with the ACTION
\* result), and no later call of the sequence has been made: configureUser
\* is not called.
C38_CallsInOrder ==
    LET order == <<"readConfigFile", "getUsernameFromAlias", "configureUser">>
    IN  /\ Len(run.calls) <= 3
        /\ run.calls = SubSeq(order, 1, Len(run.calls))
        /\ Len(run.outcomes) \in {Len(run.calls), Len(run.calls) - 1}
        /\ \A k \in 1..Len(run.outcomes) :
              (k \in {1, 2} /\ run.outcomes[k] = "rejected") =>
                  /\ Len(run.calls) = k
                  /\ nodes[run.action].status = "ERROR"
                  /\ run.settled = "rejected"
                  /\ run.val = NodeVal(run.action)
                  /\ pc = "settled"

\* The file was read, the username lookup failed: the action rejected with
\* its ACTION result in ERROR, and configureUser was not called.
C38_Witness ==
    /\ run.calls = <<"readConfigFile", "getUsernameFromAlias">>
    /\ run.outcomes = <<"resolved", "rejected">>
    /\ nodes[run.action].status = "ERROR"
    /\ nodes[run.action].errObj = "AliasError"
    /\ run.settled = "rejected"
    /\ run.userDefinition = "userDefinition"

\* All three calls were made, and the executor resolved.
C38_WitnessAllCalls ==
    /\ run.calls = <<"readConfigFile", "getUsernameFromAlias", "configureUser">>
    /\ run.outcomes = <<"resolved", "resolved", "resolved">>
    /\ run.settled = "resolved"
    /\ run.adminUsername = "admin@a.org"

=============================================================================
